---- MODULE Spec2Model ----
(***************************************************************************)
(* A model of the document-processing pipeline:                            *)
(*   - functions/document_parser/main.py   (completeness detector and the  *)
(*     lro_starter trigger handler),                                       *)
(*   - functions/chunk_processor/main.py   (process_chunking),             *)
(*   - functions/embedder/main.py          (process_embedding),            *)
(*   - functions/lro_starter/main.py       (check_all_chunks_present),     *)
(*   - functions/lro_status_checker/main.py (poll_chunks),                 *)
(*   - example_code/parser_openai.py, parser_deepsk.py, layout_parser.py   *)
(*     (the parser scripts and their parse_manifest.json checkpoint).      *)
(* Each group of functions has its own variables and its own               *)
(* specification; a specification leaves the other groups' variables at    *)
(* their initial values.                                                   *)
(***************************************************************************)
EXTENDS Integers, Sequences, FiniteSets, TLC

(***************************************************************************)
(* Object names.  A path is the sequence of its "/"-separated segments     *)
(* (what name.split("/") returns).  A segment is a pair <<prefix, rest>>   *)
(* standing for the string prefix + rest, so that the prefix test of       *)
(* list_blobs(prefix=".../chunk_") is computed, not looked up.  The        *)
(* prefix component is "chunk_" exactly for the names that start with it.  *)
(***************************************************************************)
Seg(prefix, rest) ==
    <<prefix, rest>>

StartsWithChunk(seg) ==
    seg[1] = "chunk_"

UnitFolder ==
    Seg("", "abcd-1234")

ManifestName ==
    Seg("", "manifest.json")

\* chunk_001.pdf, chunk_002.pdf: names the detector's listing can see.
ChunkSegs ==
    {Seg("chunk_", "001.pdf"), Seg("chunk_", "002.pdf")}

\* A chunk name as split_file_into_chunks writes it (<file>.chunk0): it
\* does not start with "chunk_".
OtherSegs ==
    {Seg("", "report.pdf.chunk0")}

FileSegs ==
    ChunkSegs \cup OtherSegs

\* <folder>/<name>: where check_manifest_and_decide looks for the objects.
Flat(folder, name) ==
    <<folder, name>>

\* chunks/<folder>/<name>: the layout of the docstring of get_folder_prefix.
Nested(folder, name) ==
    <<Seg("", "chunks"), folder, name>>

\* The objects that may be uploaded to SOURCE_BUCKET in this model.
ObjUniverse ==
    {Flat(UnitFolder, ManifestName)}
        \cup {Flat(UnitFolder, c) : c \in FileSegs}
        \cup {Nested(UnitFolder, Seg("chunk_", "001.pdf"))}

\* file_path.split("/")[1]
get_folder_prefix(file_path) ==
    file_path[2]

\* Every value get_folder_prefix can return for an event of this model.
FolderKeys ==
    {get_folder_prefix(p) : p \in ObjUniverse}

(***************************************************************************)
(* Manifests.  A manifest is the parsed JSON object: a function whose      *)
(* domain holds the keys that are present.                                 *)
(***************************************************************************)
MaxNumChunks ==
    3

\* dict.get(key, default)
DictGet(d, key, default) ==
    IF key \in DOMAIN d THEN d[key] ELSE default

EmptyDict ==
    [k \in {} |-> 0]

ManifestSpace ==
    {n @@ f :
        n \in {EmptyDict} \cup {("num_chunks" :> k) : k \in 0..MaxNumChunks},
        f \in {EmptyDict} \cup {("chunk_files" :> s) : s \in SUBSET FileSegs}}

\* A stored blob: absent, or present with a content.
Absent ==
    <<>>

Blob(content) ==
    <<content>>

Exists(blob) ==
    blob # Absent

Content(blob) ==
    blob[1]

NumHandlers ==
    2

\* Concurrently running instances of the lro_starter Cloud Function.
Handlers ==
    1..NumHandlers

\* Trigger events delivered, and remote calls issued per folder, in one run.
MaxTriggers ==
    3

MaxCalls ==
    2

VARIABLES
    bucket,          \* SOURCE_BUCKET: the object paths visible to exists/list
    manifestContent, \* the JSON content of <UnitFolder>/manifest.json
    metadata,        \* OUTPUT_BUCKET metadata/<folder>/report.json, per folder
    outputs,         \* OUTPUT_BUCKET structured_data/<folder>/ artifacts
    batchCalls,      \* batch_process_documents calls issued, per folder
    singleCalls,     \* process_document calls issued, per folder
    pc,              \* position of each running lro_starter invocation
    hFolder,         \* folder_prefix of each invocation
    hEntry,          \* get_lro_status(folder) at the time of the trigger
    hLro,            \* lro_id held by an invocation inside start_lro
    triggers,        \* number of trigger events delivered so far
    lastEval,        \* the latest evaluation of check_manifest_and_decide
    sawWait          \* the unit's folder was evaluated WAIT at least once

starterVars ==
    <<bucket, manifestContent, metadata, outputs, batchCalls, singleCalls,
      pc, hFolder, hEntry, hLro, triggers, lastEval, sawWait>>

\* The chunks chunk_text(document_text) returns, and how often each
\* function runs and how many operations raise in one run of the model.
NumDocChunks ==
    2

MaxRuns ==
    3

MaxFaults ==
    2

NumChunkProcs ==
    2

\* Concurrently running instances of process_chunking.
ChunkProcs ==
    1..NumChunkProcs

VARIABLES
    chunkBlobs,      \* structured_data/<folder>/chunks/chunk_NNN.json
    chunks_metadata, \* .../chunks/chunks_metadata.json (the checkpoint)
    chunks_errors,   \* .../chunks/chunks_errors.json (the failure log)
    chunker,         \* the locals of each process_chunking invocation
    chunkRuns,       \* invocations of process_chunking started so far
    chunkFaults,     \* storage operations of the stage that raised so far
    cFailRun,        \* history: first invocation in which a write raised
    cRecovered,      \* history: chunks written and checkpointed in a later one
    cEverSaved       \* history: every name a saved checkpoint has held

chunkVars ==
    <<chunkBlobs, chunks_metadata, chunks_errors, chunker, chunkRuns,
      chunkFaults, cFailRun, cRecovered, cEverSaved>>

VARIABLES
    blankChunks,         \* the chunks whose text is empty or whitespace
    embBlobs,            \* structured_data/<folder>/embeddings/*.npy
    embeddings_metadata, \* .../embeddings/embeddings_metadata.json
    embeddings_errors,   \* .../embeddings/embeddings_errors.json
    embedder,            \* the locals of each process_embedding invocation
    embedRuns,           \* invocations of process_embedding started so far
    embedFaults,         \* operations of the stage that failed so far
    eFailRun,            \* history: first invocation in which a chunk failed
    eRecovered,          \* history: chunks embedded in a later invocation
    eEverSaved           \* history: every name a saved checkpoint has held

embedVars ==
    <<blankChunks, embBlobs, embeddings_metadata, embeddings_errors,
      embedder, embedRuns, embedFaults, eFailRun, eRecovered, eEverSaved>>

\* The remote operations one run of the model can start, the invocations
\* of a parser script or of the status checker, and the faults among them.
NumOps ==
    2

MaxJobRuns ==
    4

MaxJobFaults ==
    1

\* The long-running operations, by name: 0 stands for None.
Ops ==
    1..NumOps

VARIABLES
    parse_manifest,  \* structured_data/<upload>/parse_manifest.json
    blobMetadata,    \* custom metadata of the chunk blobs of CHUNK_BUCKET
    operation,       \* the state of each remote operation
    processCalls,    \* process_document calls issued, per file
    finalized,       \* runs of the finalization step, per operation
    job,             \* the locals of the running script or function
    jobRuns,         \* invocations started so far
    jobFaults        \* faults injected so far

parserVars ==
    <<parse_manifest, blobMetadata, operation, processCalls, finalized,
      job, jobRuns, jobFaults>>

VARIABLES
    chunkBucket,      \* CHUNK_BUCKET of functions/lro_starter: object paths
    manifestsContent, \* the JSON content of manifests_<file_prefix>.json
    verdict,          \* the latest result of a completeness check
    evalTick          \* history: flips at every evaluation of a check

detectVars ==
    <<chunkBucket, manifestsContent, verdict, evalTick>>

\* The chunk size of a direct call of split_file_into_chunks, in the
\* model's megabytes of MB bytes each, the length of the files given to
\* it, and the values a byte takes.
MB ==
    2

MaxChunkMb ==
    2

MaxFileLen ==
    6

ByteValues ==
    {0, 1}

VARIABLES
    CHUNK_SIZE_MB,  \* config.py: the splitting threshold
    upFile,         \* the bytes of the file of the upload request
    tmp,            \* the files under /tmp of the uploader's instance
    chunk_paths,    \* upload_document: the local paths of the chunks
    chunk_uris,     \* upload_document: the URIs upload_to_gcs returned
    sourceObjects,  \* SOURCE_BUCKET as the uploader writes it
    upPc            \* where the request handler stands

uploaderVars ==
    <<CHUNK_SIZE_MB, upFile, tmp, chunk_paths, chunk_uris, sourceObjects,
      upPc>>

\* The longest time one attempt of a retried call takes, in seconds.
MaxAttemptSecs ==
    1

VARIABLES
    retry           \* the call of a function decorated with @Retry

retryVars ==
    <<retry>>

\* Invocations of main() of parser_openai, which may run at the same time.
NumRacers ==
    3

Racers ==
    1..NumRacers

VARIABLES
    racer           \* the locals of each of these invocations

raceVars ==
    <<racer>>

\* The variables of the uploader service, the retry policy and the
\* concurrent entry points.
extraVars ==
    <<uploaderVars, retryVars, raceVars>>

notUploader ==
    <<starterVars, chunkVars, embedVars, parserVars, detectVars, retryVars,
      raceVars>>

vars ==
    <<starterVars, chunkVars, embedVars, parserVars, detectVars, extraVars>>

\* What the functions of one group never touch.
notStarter ==
    <<chunkVars, embedVars, parserVars, detectVars, extraVars>>

notChunk ==
    <<starterVars, embedVars, parserVars, detectVars, extraVars>>

notEmbed ==
    <<starterVars, chunkVars, parserVars, detectVars, extraVars>>

notParser ==
    <<starterVars, chunkVars, embedVars, detectVars, extraVars>>

\* The files of the upload folder's manifest.json, and the chunk blobs
\* the status checker lists.
FileNames ==
    {"my_test_pdf.pdf", "my_test_doc.docx"}

ChunkBlobNames ==
    {"sample_chunk_1.pdf", "sample_chunk_2.pdf"}

\* No script is running; entry, calls and before are history fields: the
\* stored checkpoint and the remote calls made when the invocation began,
\* and the stored checkpoint before the latest poll.
JobIdle ==
    [pc |-> "idle", data |-> EmptyDict, op |-> 0, todo |-> {},
     file |-> "", entry |-> Absent, calls |-> 0, before |-> Absent]

\* The state of these variables in the specifications of the Cloud
\* Functions above, which never touch them.
ParsersIdle ==
    /\ parse_manifest = Absent
    /\ blobMetadata = [b \in ChunkBlobNames |-> EmptyDict]
    /\ operation = [o \in Ops |-> "unborn"]
    /\ processCalls = [f \in FileNames |-> 0]
    /\ finalized = [o \in Ops |-> 0]
    /\ job = JobIdle
    /\ jobRuns = 0
    /\ jobFaults = 0

\* No completeness check of the detectors' own specification has run.
DetectIdle ==
    /\ chunkBucket = {}
    /\ manifestsContent = EmptyDict
    /\ verdict = Absent
    /\ evalTick = FALSE

\* The names of the uploader: the uploaded file, the folder that
\* str(uuid.uuid4())[:8] names, a path or URI as the tuple of its parts,
\* a file name as the tuple of the pieces it is formatted from.
UpFilename ==
    <<"report.pdf">>

FolderUuid ==
    "abcd1234"

LocalPath ==
    <<"/tmp", UpFilename>>

\* f"{os.path.basename(local_path)}.chunk_{chunk_index}", under /tmp
ChunkPath(local_path, chunk_index) ==
    <<"/tmp", local_path[Len(local_path)] \o <<".chunk_", chunk_index>>>>

\* os.path.basename
Basename(path) ==
    path[Len(path)]

TmpPaths ==
    {LocalPath} \cup {ChunkPath(LocalPath, i) : i \in 0..MaxFileLen}

BlobNames ==
    {<<FolderUuid, Basename(p)>> : p \in TmpPaths}
        \cup {<<FolderUuid, ManifestName>>}

\* The uploader has received no request.
UploaderIdle ==
    /\ CHUNK_SIZE_MB = 1
    /\ upFile = <<>>
    /\ tmp = [p \in TmpPaths |-> Absent]
    /\ chunk_paths = <<>>
    /\ chunk_uris = <<>>
    /\ sourceObjects = [b \in BlobNames |-> Absent]
    /\ upPc = "idle"

\* No decorated function has been called.
RetryIdle ==
    retry = [op |-> "", delay |-> 0, elapsed |-> 0, waits |-> <<>>,
             pc |-> "idle"]

\* No invocation of main() has begun.
RacerIdle ==
    [pc |-> "idle", data |-> EmptyDict]

RaceIdle ==
    racer = [i \in Racers |-> RacerIdle]

\* The state of these variables in the specifications of the functions
\* and scripts, which never touch them.
ExtraIdle ==
    UploaderIdle /\ RetryIdle /\ RaceIdle

(***************************************************************************)
(* functions/document_parser/main.py                                       *)
(***************************************************************************)

\* list_blobs(prefix=f"{folder_prefix}/chunk_"), then the last segment of
\* each listed name.
ListChunkFiles(folder) ==
    {p[Len(p)] : p \in {q \in bucket : Len(q) >= 2 /\ q[1] = folder
                                          /\ StartsWithChunk(q[2])}}

\* The names of the objects visible directly under <folder>/.
FolderObjects(folder) ==
    {p[2] : p \in {q \in bucket : Len(q) = 2 /\ q[1] = folder}}

ManifestExists(folder) ==
    Flat(folder, ManifestName) \in bucket

\* A plausible slip: the cardinality test alone.
check_manifest_and_decide_CountOnly(folder) ==
    LET num_chunks == DictGet(manifestContent, "num_chunks", 0)
        actual_chunk_files == ListChunkFiles(folder)
    IN  IF ~ManifestExists(folder) THEN "WAIT"
        ELSE IF Cardinality(actual_chunk_files) = num_chunks
             THEN (IF num_chunks > 1 THEN "LRO" ELSE "SINGLE")
             ELSE "WAIT"

\* A plausible slip: the manifest is read without the exists() test.
check_manifest_and_decide_NoExistsTest(folder) ==
    LET num_chunks == DictGet(manifestContent, "num_chunks", 0)
        expected_chunk_files == DictGet(manifestContent, "chunk_files", {})
        actual_chunk_files == ListChunkFiles(folder)
    IN  IF Cardinality(actual_chunk_files) = num_chunks
           /\ expected_chunk_files = actual_chunk_files
        THEN (IF num_chunks > 1 THEN "LRO" ELSE "SINGLE")
        ELSE "WAIT"

check_manifest_and_decide(folder) ==
    LET num_chunks == DictGet(manifestContent, "num_chunks", 0)
        expected_chunk_files == DictGet(manifestContent, "chunk_files", {})
        actual_chunk_files == ListChunkFiles(folder)
    IN  IF ~ManifestExists(folder) THEN "WAIT"
        ELSE IF Cardinality(actual_chunk_files) = num_chunks
                /\ expected_chunk_files = actual_chunk_files
             THEN (IF num_chunks > 1 THEN "LRO" ELSE "SINGLE")
             ELSE "WAIT"

\* get_lro_status.  An lro_id is an operation name: a positive number here,
\* 0 standing for a missing or empty one.
get_lro_status(folder) ==
    IF ~Exists(metadata[folder]) THEN "NEW"
    ELSE LET md == Content(metadata[folder])
             lro_id == DictGet(md, "lro_id", 0)
             status == DictGet(md, "status", "")
         IN  IF status = "COMPLETED" THEN "COMPLETE"
             ELSE IF status = "IN_PROGRESS" /\ lro_id # 0 THEN "RESUME"
             ELSE "NEW"

StarterInit ==
    /\ bucket = {}
    /\ manifestContent \in ManifestSpace
    /\ metadata = [f \in FolderKeys |-> Absent]
    /\ outputs = [f \in FolderKeys |-> {}]
    /\ batchCalls = [f \in FolderKeys |-> 0]
    /\ singleCalls = [f \in FolderKeys |-> 0]
    /\ pc = [h \in Handlers |-> "idle"]
    /\ hFolder = [h \in Handlers |-> UnitFolder]
    /\ hEntry = [h \in Handlers |-> "NEW"]
    /\ hLro = [h \in Handlers |-> 0]
    /\ triggers = 0
    /\ lastEval = Absent
    /\ sawWait = FALSE

\* An object becomes visible in SOURCE_BUCKET (uploaded by the uploader
\* service or by anyone else writing to the bucket).
Upload(p) ==
    /\ p \notin bucket
    /\ bucket' = bucket \cup {p}
    /\ UNCHANGED <<manifestContent, metadata, outputs, batchCalls,
                   singleCalls, pc, hFolder, hEntry, hLro, triggers,
                   lastEval, sawWait>>
    /\ UNCHANGED notStarter

\* The invocation of handler h returns (or dies with an exception).
Finish(h) ==
    /\ pc' = [pc EXCEPT ![h] = "idle"]
    /\ hFolder' = [hFolder EXCEPT ![h] = UnitFolder]
    /\ hEntry' = [hEntry EXCEPT ![h] = "NEW"]
    /\ hLro' = [hLro EXCEPT ![h] = 0]

\* lro_starter, lines 210-225: an event for object e is delivered (events
\* are delivered at least once, so any uploaded object may trigger again).
Trigger(h, e) ==
    /\ pc[h] = "idle"
    /\ e \in bucket
    /\ triggers < MaxTriggers
    /\ triggers' = triggers + 1
    /\ LET folder_prefix == get_folder_prefix(e)
           processing_type == check_manifest_and_decide(folder_prefix)
       IN  /\ lastEval' = Blob([folder |-> folder_prefix,
                                 result |-> processing_type,
                                 manifest |-> ManifestExists(folder_prefix),
                                 listed |-> ListChunkFiles(folder_prefix),
                                 visible |-> FolderObjects(folder_prefix),
                                 handler |-> h])
           /\ sawWait' = (sawWait \/ (folder_prefix = UnitFolder
                                         /\ processing_type = "WAIT"))
           /\ IF processing_type = "WAIT"
              THEN Finish(h)
              ELSE /\ pc' = [pc EXCEPT ![h] =
                                IF processing_type = "LRO" THEN "start_lro"
                                ELSE "single_call"]
                   /\ hFolder' = [hFolder EXCEPT ![h] = folder_prefix]
                   /\ hEntry' = [hEntry EXCEPT ![h] =
                                    get_lro_status(folder_prefix)]
                   /\ hLro' = hLro
    /\ UNCHANGED <<bucket, manifestContent, metadata, outputs, batchCalls,
                   singleCalls>>
    /\ UNCHANGED notStarter

\* start_lro, line 158: the request is sent.
StartLroCall(h) ==
    /\ pc[h] = "start_lro"
    /\ batchCalls[hFolder[h]] < MaxCalls
    /\ batchCalls' = [batchCalls EXCEPT ![hFolder[h]] = @ + 1]
    /\ pc' = [pc EXCEPT ![h] = "lro_called"]
    /\ UNCHANGED <<bucket, manifestContent, metadata, outputs, singleCalls,
                   hFolder, hEntry, hLro, triggers, lastEval, sawWait>>
    /\ UNCHANGED notStarter

\* start_lro, lines 158-159: the call returns the new operation.
StartLroReturn(h) ==
    /\ pc[h] = "lro_called"
    /\ hLro' = [hLro EXCEPT ![h] = batchCalls[hFolder[h]]]
    /\ pc' = [pc EXCEPT ![h] = "lro_write"]
    /\ UNCHANGED <<bucket, manifestContent, metadata, outputs, batchCalls,
                   singleCalls, hFolder, hEntry, triggers, lastEval, sawWait>>
    /\ UNCHANGED notStarter

\* start_lro, lines 162-163: the metadata record is written.
StartLroWrite(h) ==
    /\ pc[h] = "lro_write"
    /\ metadata' = [metadata EXCEPT ![hFolder[h]] =
                       Blob([lro_id |-> hLro[h], status |-> "IN_PROGRESS"])]
    /\ Finish(h)
    /\ UNCHANGED <<bucket, manifestContent, outputs, batchCalls, singleCalls,
                   triggers, lastEval, sawWait>>
    /\ UNCHANGED notStarter

\* The remote call or the metadata write raises.  @Retry (line 134) calls
\* start_lro again from its first line when the exception is one it counts
\* as transient and the deadline has not passed; otherwise the exception
\* leaves the handler.
StartLroRaises(h, retried) ==
    /\ pc[h] \in {"lro_called", "lro_write"}
    /\ IF retried
       THEN /\ pc' = [pc EXCEPT ![h] = "start_lro"]
            /\ hLro' = [hLro EXCEPT ![h] = 0]
            /\ UNCHANGED <<hFolder, hEntry>>
       ELSE Finish(h)
    /\ UNCHANGED <<bucket, manifestContent, metadata, outputs, batchCalls,
                   singleCalls, triggers, lastEval, sawWait>>
    /\ UNCHANGED notStarter

\* start_single_processing, line 182: the request is sent.
SingleCall(h) ==
    /\ pc[h] = "single_call"
    /\ singleCalls[hFolder[h]] < MaxCalls
    /\ singleCalls' = [singleCalls EXCEPT ![hFolder[h]] = @ + 1]
    /\ pc' = [pc EXCEPT ![h] = "single_called"]
    /\ UNCHANGED <<bucket, manifestContent, metadata, outputs, batchCalls,
                   hFolder, hEntry, hLro, triggers, lastEval, sawWait>>
    /\ UNCHANGED notStarter

\* A plausible slip: the COMPLETED record is written as soon as the call
\* returns, before the outputs.
SingleReturn_MetaFirst(h) ==
    /\ pc[h] = "single_called"
    /\ metadata' = [metadata EXCEPT ![hFolder[h]] =
                       Blob([status |-> "COMPLETED"])]
    /\ pc' = [pc EXCEPT ![h] = "single_text"]
    /\ UNCHANGED <<bucket, manifestContent, outputs, batchCalls,
                   singleCalls, hFolder, hEntry, hLro, triggers, lastEval,
                   sawWait>>
    /\ UNCHANGED notStarter

\* start_single_processing, lines 182-186: the parsed document is returned.
SingleReturn(h) ==
    /\ pc[h] = "single_called"
    /\ pc' = [pc EXCEPT ![h] = "single_text"]
    /\ UNCHANGED <<bucket, manifestContent, metadata, outputs, batchCalls,
                   singleCalls, hFolder, hEntry, hLro, triggers, lastEval,
                   sawWait>>
    /\ UNCHANGED notStarter

\* start_single_processing, line 190.
SingleWriteText(h) ==
    /\ pc[h] = "single_text"
    /\ outputs' = [outputs EXCEPT ![hFolder[h]] = @ \cup {"report_text.txt"}]
    /\ pc' = [pc EXCEPT ![h] = "single_entities"]
    /\ UNCHANGED <<bucket, manifestContent, metadata, batchCalls,
                   singleCalls, hFolder, hEntry, hLro, triggers, lastEval,
                   sawWait>>
    /\ UNCHANGED notStarter

\* start_single_processing, line 191.
SingleWriteEntities(h) ==
    /\ pc[h] = "single_entities"
    /\ outputs' = [outputs EXCEPT ![hFolder[h]] =
                      @ \cup {"report_entities.json"}]
    /\ pc' = [pc EXCEPT ![h] = "single_meta"]
    /\ UNCHANGED <<bucket, manifestContent, metadata, batchCalls,
                   singleCalls, hFolder, hEntry, hLro, triggers, lastEval,
                   sawWait>>
    /\ UNCHANGED notStarter

\* start_single_processing, lines 194-195.
SingleWriteMeta(h) ==
    /\ pc[h] = "single_meta"
    /\ metadata' = [metadata EXCEPT ![hFolder[h]] =
                       Blob([status |-> "COMPLETED"])]
    /\ Finish(h)
    /\ UNCHANGED <<bucket, manifestContent, outputs, batchCalls, singleCalls,
                   triggers, lastEval, sawWait>>
    /\ UNCHANGED notStarter

\* process_document or one of the three writes raises: nothing in
\* start_single_processing or lro_starter catches it.
SingleRaises(h) ==
    /\ pc[h] \in {"single_called", "single_text", "single_entities",
                   "single_meta"}
    /\ Finish(h)
    /\ UNCHANGED <<bucket, manifestContent, metadata, outputs, batchCalls,
                   singleCalls, triggers, lastEval, sawWait>>
    /\ UNCHANGED notStarter

StarterNext ==
    \/ \E p \in ObjUniverse : Upload(p)
    \/ \E h \in Handlers, e \in ObjUniverse : Trigger(h, e)
    \/ \E h \in Handlers : StartLroCall(h)
    \/ \E h \in Handlers : StartLroReturn(h)
    \/ \E h \in Handlers : StartLroWrite(h)
    \/ \E h \in Handlers, retried \in BOOLEAN : StartLroRaises(h, retried)
    \/ \E h \in Handlers : SingleCall(h)
    \/ \E h \in Handlers : SingleReturn(h)
    \/ \E h \in Handlers : SingleWriteText(h)
    \/ \E h \in Handlers : SingleWriteEntities(h)
    \/ \E h \in Handlers : SingleWriteMeta(h)
    \/ \E h \in Handlers : SingleRaises(h)

\* The state of the starter's variables in the specifications of the other
\* functions, which never touch them.
StarterIdle ==
    /\ bucket = {}
    /\ manifestContent = EmptyDict
    /\ metadata = [f \in FolderKeys |-> Absent]
    /\ outputs = [f \in FolderKeys |-> {}]
    /\ batchCalls = [f \in FolderKeys |-> 0]
    /\ singleCalls = [f \in FolderKeys |-> 0]
    /\ pc = [h \in Handlers |-> "idle"]
    /\ hFolder = [h \in Handlers |-> UnitFolder]
    /\ hEntry = [h \in Handlers |-> "NEW"]
    /\ hLro = [h \in Handlers |-> 0]
    /\ triggers = 0
    /\ lastEval = Absent
    /\ sawWait = FALSE

(***************************************************************************)
(* functions/chunk_processor/main.py                                       *)
(***************************************************************************)

\* f"chunk_{idx+1:03}.json" for the 0-based index idx, as <<stem, number,
\* extension>>.
ChunkFileName(idx) ==
    <<"chunk_", idx + 1, ".json">>

DocChunkNames ==
    {ChunkFileName(i) : i \in 0..(NumDocChunks - 1)}

\* {entry["chunk"] for entry in log}
LogNames(log) ==
    {log[i].chunk : i \in 1..Len(log)}

\* [entry for entry in log if entry["chunk"] != name]
RECURSIVE WithoutChunk(_, _)
WithoutChunk(log, name) ==
    IF log = <<>> THEN <<>>
    ELSE IF Head(log).chunk = name THEN WithoutChunk(Tail(log), name)
    ELSE <<Head(log)>> \o WithoutChunk(Tail(log), name)

\* load_checkpoint()["processed_chunks"] as a set; load_failed_chunks()
\* ["failed_chunks"]: the stored content, or the empty default.
StoredSet(blob) ==
    IF Exists(blob) THEN Content(blob) ELSE {}

StoredLog(blob) ==
    IF Exists(blob) THEN Content(blob) ELSE <<>>

ChunkerIdle ==
    [pc |-> "idle", run |-> 0, idx |-> 0, processed_chunks |-> {},
     failed_chunks |-> <<>>, retry_chunks |-> {}, error |-> "",
     error_log |-> <<>>]

ChunkInit ==
    /\ chunkBlobs = {}
    /\ chunks_metadata = Absent
    /\ chunks_errors = Absent
    /\ chunker = [p \in ChunkProcs |-> ChunkerIdle]
    /\ chunkRuns = 0
    /\ chunkFaults = 0
    /\ cFailRun = [n \in DocChunkNames |-> 0]
    /\ cRecovered = {}
    /\ cEverSaved = {}

\* process_chunking, lines 80-97: the text is read and the checkpoint loaded.
ChunkStart(p) ==
    /\ chunker[p].pc = "idle"
    /\ chunkRuns < MaxRuns
    /\ chunkRuns' = chunkRuns + 1
    /\ chunker' = [chunker EXCEPT ![p] =
                      [@ EXCEPT !.pc = "load_failed",
                                !.run = chunkRuns + 1,
                                !.processed_chunks =
                                    StoredSet(chunks_metadata)]]
    /\ UNCHANGED <<chunkBlobs, chunks_metadata, chunks_errors, chunkFaults,
                   cFailRun, cRecovered, cEverSaved>>
    /\ UNCHANGED notChunk

\* process_chunking, lines 100-104.
ChunkLoadFailed(p) ==
    /\ chunker[p].pc = "load_failed"
    /\ chunker' = [chunker EXCEPT ![p] =
                      [@ EXCEPT !.pc = "loop",
                                !.idx = 0,
                                !.failed_chunks = StoredLog(chunks_errors),
                                !.retry_chunks =
                                    LogNames(StoredLog(chunks_errors))]]
    /\ UNCHANGED <<chunkBlobs, chunks_metadata, chunks_errors, chunkRuns,
                   chunkFaults, cFailRun, cRecovered, cEverSaved>>
    /\ UNCHANGED notChunk

\* A plausible slip: the loop does not skip the chunks of the checkpoint.
ChunkLoop_NoSkip(p) ==
    /\ chunker[p].pc = "loop"
    /\ chunker' = [chunker EXCEPT ![p] =
                      IF @.idx = NumDocChunks THEN ChunkerIdle
                      ELSE [@ EXCEPT !.pc = "upload"]]
    /\ UNCHANGED <<chunkBlobs, chunks_metadata, chunks_errors, chunkRuns,
                   chunkFaults, cFailRun, cRecovered, cEverSaved>>
    /\ UNCHANGED notChunk

\* process_chunking, lines 107-112 and 135: the head of the loop.
ChunkLoop(p) ==
    /\ chunker[p].pc = "loop"
    /\ chunker' = [chunker EXCEPT ![p] =
                      IF @.idx = NumDocChunks THEN ChunkerIdle
                      ELSE IF ChunkFileName(@.idx) \in @.processed_chunks
                           THEN [@ EXCEPT !.idx = @ + 1]
                           ELSE [@ EXCEPT !.pc = "upload"]]
    /\ UNCHANGED <<chunkBlobs, chunks_metadata, chunks_errors, chunkRuns,
                   chunkFaults, cFailRun, cRecovered, cEverSaved>>
    /\ UNCHANGED notChunk

\* process_chunking, lines 115-118: the chunk is written.
ChunkUpload(p) ==
    /\ chunker[p].pc = "upload"
    /\ chunkBlobs' = chunkBlobs \cup {ChunkFileName(chunker[p].idx)}
    /\ chunker' = [chunker EXCEPT ![p].pc = "save_checkpoint"]
    /\ UNCHANGED <<chunks_metadata, chunks_errors, chunkRuns, chunkFaults,
                   cFailRun, cRecovered, cEverSaved>>
    /\ UNCHANGED notChunk

\* process_chunking, lines 121-129: the checkpoint is saved.  For a chunk
\* of the retry list the call of line 129 passes two arguments to the
\* three-parameter save_failed_chunk: a TypeError, caught at line 131.
ChunkSaveCheckpoint(p) ==
    LET name == ChunkFileName(chunker[p].idx)
        processed == chunker[p].processed_chunks \cup {name}
    IN  /\ chunker[p].pc = "save_checkpoint"
        /\ chunks_metadata' = Blob(processed)
        /\ cEverSaved' = cEverSaved \cup processed
        /\ cRecovered' = IF cFailRun[name] > 0
                             /\ chunker[p].run > cFailRun[name]
                          THEN cRecovered \cup {name} ELSE cRecovered
        /\ chunker' = [chunker EXCEPT ![p] =
                          IF name \in @.retry_chunks
                          THEN [@ EXCEPT !.processed_chunks = processed,
                                         !.failed_chunks =
                                             WithoutChunk(@, name),
                                         !.error = "TypeError",
                                         !.pc = "log_read"]
                          ELSE [@ EXCEPT !.processed_chunks = processed,
                                         !.idx = @ + 1,
                                         !.pc = "loop"]]
        /\ UNCHANGED <<chunkBlobs, chunks_errors, chunkRuns, chunkFaults,
                       cFailRun>>
        /\ UNCHANGED notChunk

\* The upload of line 118 or the save of line 122 raises; line 121 has
\* already added the name to the local set when the save raises.
ChunkRaise(p) ==
    LET name == ChunkFileName(chunker[p].idx)
    IN  /\ chunker[p].pc \in {"upload", "save_checkpoint"}
        /\ chunkFaults < MaxFaults
        /\ chunkFaults' = chunkFaults + 1
        /\ cFailRun' = IF chunker[p].pc = "upload" /\ cFailRun[name] = 0
                        THEN [cFailRun EXCEPT ![name] = chunker[p].run]
                        ELSE cFailRun
        /\ chunker' = [chunker EXCEPT ![p] =
                          [@ EXCEPT !.processed_chunks =
                                        IF chunker[p].pc = "save_checkpoint"
                                        THEN @ \cup {name} ELSE @,
                                    !.error = "StorageError",
                                    !.pc = "log_read"]]
        /\ UNCHANGED <<chunkBlobs, chunks_metadata, chunks_errors,
                       chunkRuns, cRecovered, cEverSaved>>
        /\ UNCHANGED notChunk

\* save_failed_chunk, line 62, called from the handler of line 133.
ChunkLogRead(p) ==
    /\ chunker[p].pc = "log_read"
    /\ chunker' = [chunker EXCEPT ![p] =
                      [@ EXCEPT !.error_log = StoredLog(chunks_errors),
                                !.pc = "log_write"]]
    /\ UNCHANGED <<chunkBlobs, chunks_metadata, chunks_errors, chunkRuns,
                   chunkFaults, cFailRun, cRecovered, cEverSaved>>
    /\ UNCHANGED notChunk

\* save_failed_chunk, lines 63-68; then the next iteration.
ChunkLogWrite(p) ==
    /\ chunker[p].pc = "log_write"
    /\ chunks_errors' =
           Blob(Append(chunker[p].error_log,
                       [chunk |-> ChunkFileName(chunker[p].idx),
                        error |-> chunker[p].error]))
    /\ chunker' = [chunker EXCEPT ![p] =
                      [@ EXCEPT !.idx = @ + 1, !.error = "",
                                !.error_log = <<>>, !.pc = "loop"]]
    /\ UNCHANGED <<chunkBlobs, chunks_metadata, chunkRuns, chunkFaults,
                   cFailRun, cRecovered, cEverSaved>>
    /\ UNCHANGED notChunk

\* The invocation ends early: a storage operation outside the try block
\* raises (lines 96, 100, or those of save_failed_chunk under line 133), or
\* the function instance is killed.
ChunkAbort(p) ==
    /\ chunker[p].pc # "idle"
    /\ chunker' = [chunker EXCEPT ![p] = ChunkerIdle]
    /\ UNCHANGED <<chunkBlobs, chunks_metadata, chunks_errors, chunkRuns,
                   chunkFaults, cFailRun, cRecovered, cEverSaved>>
    /\ UNCHANGED notChunk

ChunkNext ==
    \/ \E p \in ChunkProcs : ChunkStart(p)
    \/ \E p \in ChunkProcs : ChunkLoadFailed(p)
    \/ \E p \in ChunkProcs : ChunkLoop(p)
    \/ \E p \in ChunkProcs : ChunkUpload(p)
    \/ \E p \in ChunkProcs : ChunkSaveCheckpoint(p)
    \/ \E p \in ChunkProcs : ChunkRaise(p)
    \/ \E p \in ChunkProcs : ChunkLogRead(p)
    \/ \E p \in ChunkProcs : ChunkLogWrite(p)
    \/ \E p \in ChunkProcs : ChunkAbort(p)

(***************************************************************************)
(* functions/embedder/main.py                                              *)
(***************************************************************************)

\* chunk_filename.replace(".json", ".npy")
EmbeddingFileName(chunk_filename) ==
    <<chunk_filename[1],
      chunk_filename[2],
      IF chunk_filename[3] = ".json" THEN ".npy" ELSE chunk_filename[3]>>

\* The checkpoint and the failure log of the chunking stage live under the
\* same chunks/ prefix as the chunks.
ChunksMetadataName ==
    <<"chunks_metadata", 0, ".json">>

ChunksErrorsName ==
    <<"chunks_errors", 0, ".json">>

RECURSIVE SortedNames(_)
SortedNames(S) ==
    IF S = {} THEN <<>>
    ELSE LET first == CHOOSE x \in S : \A y \in S : x[2] <= y[2]
         IN  <<first>> \o SortedNames(S \ {first})

\* list_blobs(prefix=".../chunks/"), line 88, in the name order of the
\* listing: chunk_NNN.json, chunks_errors.json, chunks_metadata.json.
ListChunkBlobs ==
    SortedNames(chunkBlobs)
        \o (IF Exists(chunks_errors) THEN <<ChunksErrorsName>> ELSE <<>>)
        \o (IF Exists(chunks_metadata) THEN <<ChunksMetadataName>> ELSE <<>>)

\* not chunk_data.get("text", "").strip(): the two JSON records above have
\* no "text" key.
HasNoText(chunk_filename) ==
    \/ chunk_filename \in {ChunksMetadataName, ChunksErrorsName}
    \/ chunk_filename \in blankChunks

ListedNames ==
    DocChunkNames \cup {ChunksMetadataName, ChunksErrorsName}

\* A plausible slip: the retried chunk stays in the list.
RemoveFromErrors_Keep(failed_chunks, chunk_filename) ==
    failed_chunks

\* line 122: [c for c in failed_chunks if c["chunk"] != chunk_filename]
RemoveFromErrors(failed_chunks, chunk_filename) ==
    WithoutChunk(failed_chunks, chunk_filename)

EmbedderIdle ==
    [pc |-> "idle", run |-> 0, chunk_blobs |-> <<>>, idx |-> 1,
     processed_chunks |-> {}, failed_chunks |-> <<>>, error |-> "",
     errors_data |-> <<>>]

EmbedIdle ==
    /\ blankChunks = {}
    /\ embBlobs = {}
    /\ embeddings_metadata = Absent
    /\ embeddings_errors = Absent
    /\ embedder = [q \in {1} |-> EmbedderIdle]
    /\ embedRuns = 0
    /\ embedFaults = 0
    /\ eFailRun = [n \in ListedNames |-> 0]
    /\ eRecovered = {}
    /\ eEverSaved = {}

\* The chunking stage has written some of the document's chunks (and
\* perhaps its checkpoint); the embedding stage has not run yet.
EmbedInit ==
    /\ chunkBlobs \in (SUBSET DocChunkNames) \ {{}}
    /\ chunks_metadata \in {Absent, Blob(chunkBlobs)}
    /\ chunks_errors = Absent
    /\ chunker = [p \in ChunkProcs |-> ChunkerIdle]
    /\ chunkRuns = 0
    /\ chunkFaults = 0
    /\ cFailRun = [n \in DocChunkNames |-> 0]
    /\ cRecovered = {}
    /\ cEverSaved = StoredSet(chunks_metadata)
    /\ blankChunks \in SUBSET DocChunkNames
    /\ embBlobs = {}
    /\ embeddings_metadata = Absent
    /\ embeddings_errors = Absent
    /\ embedder = [q \in {1} |-> EmbedderIdle]
    /\ embedRuns = 0
    /\ embedFaults = 0
    /\ eFailRun = [n \in ListedNames |-> 0]
    /\ eRecovered = {}
    /\ eEverSaved = {}

CurrentChunk(q) ==
    embedder[q].chunk_blobs[embedder[q].idx]

\* process_embedding, lines 69-76: the checkpoint is loaded.
EmbedStart(q) ==
    /\ embedder[q].pc = "idle"
    /\ embedRuns < MaxRuns
    /\ embedRuns' = embedRuns + 1
    /\ embedder' = [embedder EXCEPT ![q] =
                       [@ EXCEPT !.pc = "load_errors",
                                 !.run = embedRuns + 1,
                                 !.processed_chunks =
                                     StoredSet(embeddings_metadata)]]
    /\ UNCHANGED <<blankChunks, embBlobs, embeddings_metadata,
                   embeddings_errors, embedFaults, eFailRun, eRecovered,
                   eEverSaved>>
    /\ UNCHANGED notEmbed

\* process_embedding, lines 79-88: the failure log is loaded and the chunk
\* blobs are listed.
EmbedLoadErrors(q) ==
    /\ embedder[q].pc = "load_errors"
    /\ embedder' = [embedder EXCEPT ![q] =
                       [@ EXCEPT !.pc = "loop",
                                 !.idx = 1,
                                 !.failed_chunks =
                                     StoredLog(embeddings_errors),
                                 !.chunk_blobs = ListChunkBlobs]]
    /\ UNCHANGED <<blankChunks, embBlobs, embeddings_metadata,
                   embeddings_errors, embedRuns, embedFaults, eFailRun,
                   eRecovered, eEverSaved>>
    /\ UNCHANGED notEmbed

\* process_embedding, lines 90-96 and 129: the head of the loop.
EmbedLoop(q) ==
    /\ embedder[q].pc = "loop"
    /\ embedder' = [embedder EXCEPT ![q] =
                       IF @.idx > Len(@.chunk_blobs) THEN EmbedderIdle
                       ELSE IF EmbeddingFileName(@.chunk_blobs[@.idx])
                                   \in @.processed_chunks
                            THEN [@ EXCEPT !.idx = @ + 1]
                            ELSE [@ EXCEPT !.pc = "read"]]
    /\ UNCHANGED <<blankChunks, embBlobs, embeddings_metadata,
                   embeddings_errors, embedRuns, embedFaults, eFailRun,
                   eRecovered, eEverSaved>>
    /\ UNCHANGED notEmbed

\* process_embedding, lines 100-109: the chunk is read; an empty one is
\* skipped, any other is encoded.
EmbedRead(q) ==
    /\ embedder[q].pc = "read"
    /\ embedder' = [embedder EXCEPT ![q] =
                       IF HasNoText(CurrentChunk(q))
                       THEN [@ EXCEPT !.idx = @ + 1, !.pc = "loop"]
                       ELSE [@ EXCEPT !.pc = "save"]]
    /\ UNCHANGED <<blankChunks, embBlobs, embeddings_metadata,
                   embeddings_errors, embedRuns, embedFaults, eFailRun,
                   eRecovered, eEverSaved>>
    /\ UNCHANGED notEmbed

\* process_embedding, lines 112-115: np.save writes into the writer that
\* embedding_blob.open("wb") returns, and the object is uploaded.
EmbedSave(q) ==
    /\ embedder[q].pc = "save"
    /\ embBlobs' = embBlobs \cup {EmbeddingFileName(CurrentChunk(q))}
    /\ embedder' = [embedder EXCEPT ![q].pc = "save_checkpoint"]
    /\ UNCHANGED <<blankChunks, embeddings_metadata, embeddings_errors,
                   embedRuns, embedFaults, eFailRun, eRecovered, eEverSaved>>
    /\ UNCHANGED notEmbed

\* Line 115 never closes that writer.  A blob writer sends what it holds
\* when it is closed, so the upload runs when the dropped writer is
\* finalized, and an exception raised inside a finalizer is discarded:
\* the statement returns normally and no object has been written.
EmbedSaveLost(q) ==
    /\ embedder[q].pc = "save"
    /\ embedFaults < MaxFaults
    /\ embedFaults' = embedFaults + 1
    /\ embedder' = [embedder EXCEPT ![q].pc = "save_checkpoint"]
    /\ UNCHANGED <<blankChunks, embBlobs, embeddings_metadata,
                   embeddings_errors, embedRuns, eFailRun, eRecovered,
                   eEverSaved>>
    /\ UNCHANGED notEmbed

\* process_embedding, lines 118-119: the checkpoint is saved.
EmbedSaveCheckpoint(q) ==
    LET processed == embedder[q].processed_chunks
                         \cup {EmbeddingFileName(CurrentChunk(q))}
    IN  /\ embedder[q].pc = "save_checkpoint"
        /\ embeddings_metadata' = Blob(processed)
        /\ eEverSaved' = eEverSaved \cup processed
        /\ embedder' = [embedder EXCEPT ![q] =
                           [@ EXCEPT !.processed_chunks = processed,
                                     !.pc = "rewrite_log"]]
        /\ UNCHANGED <<blankChunks, embBlobs, embeddings_errors, embedRuns,
                       embedFaults, eFailRun, eRecovered>>
        /\ UNCHANGED notEmbed

\* process_embedding, lines 122-123: the chunk is taken out of the local
\* copy of the failure log, which replaces the stored one.
EmbedRewriteLog(q) ==
    LET name == CurrentChunk(q)
        failed == RemoveFromErrors(embedder[q].failed_chunks, name)
    IN  /\ embedder[q].pc = "rewrite_log"
        /\ embeddings_errors' = Blob(failed)
        /\ eRecovered' = IF eFailRun[name] > 0
                             /\ embedder[q].run > eFailRun[name]
                          THEN eRecovered \cup {name} ELSE eRecovered
        /\ embedder' = [embedder EXCEPT ![q] =
                           [@ EXCEPT !.failed_chunks = failed,
                                     !.idx = @ + 1,
                                     !.pc = "loop"]]
        /\ UNCHANGED <<blankChunks, embBlobs, embeddings_metadata,
                       embedRuns, embedFaults, eFailRun, eEverSaved>>
        /\ UNCHANGED notEmbed

\* A statement of the try block (lines 99-123) raises.  The local changes
\* made before the failing call stay: line 118 when the save of line 119
\* raises, line 122 when the upload of line 123 raises.
EmbedRaise(q) ==
    LET name == CurrentChunk(q)
        at == embedder[q].pc
    IN  /\ at \in {"read", "save", "save_checkpoint", "rewrite_log"}
        /\ embedFaults < MaxFaults
        /\ embedFaults' = embedFaults + 1
        /\ eFailRun' = IF eFailRun[name] = 0
                        THEN [eFailRun EXCEPT ![name] = embedder[q].run]
                        ELSE eFailRun
        /\ embedder' = [embedder EXCEPT ![q] =
                           [@ EXCEPT !.processed_chunks =
                                         IF at \in {"save_checkpoint",
                                                    "rewrite_log"}
                                         THEN @ \cup {EmbeddingFileName(name)}
                                         ELSE @,
                                     !.failed_chunks =
                                         IF at = "rewrite_log"
                                         THEN RemoveFromErrors(@, name)
                                         ELSE @,
                                     !.error = "Exception",
                                     !.pc = "log_read"]]
        /\ UNCHANGED <<blankChunks, embBlobs, embeddings_metadata,
                       embeddings_errors, embedRuns, eRecovered, eEverSaved>>
        /\ UNCHANGED notEmbed

\* log_failed_embedding, lines 48-54, called from the handler of line 127.
EmbedLogRead(q) ==
    /\ embedder[q].pc = "log_read"
    /\ embedder' = [embedder EXCEPT ![q] =
                       [@ EXCEPT !.errors_data =
                                     StoredLog(embeddings_errors),
                                 !.pc = "log_write"]]
    /\ UNCHANGED <<blankChunks, embBlobs, embeddings_metadata,
                   embeddings_errors, embedRuns, embedFaults, eFailRun,
                   eRecovered, eEverSaved>>
    /\ UNCHANGED notEmbed

\* A plausible slip: the handler logs the failure and re-raises, which
\* ends the invocation.
EmbedLogWrite_Return(q) ==
    /\ embedder[q].pc = "log_write"
    /\ embeddings_errors' =
           Blob(Append(embedder[q].errors_data,
                       [chunk |-> CurrentChunk(q),
                        error |-> embedder[q].error]))
    /\ embedder' = [embedder EXCEPT ![q] = EmbedderIdle]
    /\ UNCHANGED <<blankChunks, embBlobs, embeddings_metadata, embedRuns,
                   embedFaults, eFailRun, eRecovered, eEverSaved>>
    /\ UNCHANGED notEmbed

\* log_failed_embedding, lines 56-60 (the entry's timestamp, which nothing
\* reads, is left out); then the next iteration.
EmbedLogWrite(q) ==
    /\ embedder[q].pc = "log_write"
    /\ embeddings_errors' =
           Blob(Append(embedder[q].errors_data,
                       [chunk |-> CurrentChunk(q),
                        error |-> embedder[q].error]))
    /\ embedder' = [embedder EXCEPT ![q] =
                       [@ EXCEPT !.idx = @ + 1, !.error = "",
                                 !.errors_data = <<>>, !.pc = "loop"]]
    /\ UNCHANGED <<blankChunks, embBlobs, embeddings_metadata, embedRuns,
                   embedFaults, eFailRun, eRecovered, eEverSaved>>
    /\ UNCHANGED notEmbed

\* The invocation ends early: a storage operation outside the try block
\* raises (lines 75-88, or those of log_failed_embedding under line 127),
\* or the function instance is killed.
EmbedAbort(q) ==
    /\ embedder[q].pc # "idle"
    /\ embedder' = [embedder EXCEPT ![q] = EmbedderIdle]
    /\ UNCHANGED <<blankChunks, embBlobs, embeddings_metadata,
                   embeddings_errors, embedRuns, embedFaults, eFailRun,
                   eRecovered, eEverSaved>>
    /\ UNCHANGED notEmbed

\* Invocations of process_embedding that do not overlap: one instance, run
\* again and again.
EmbedSerialNext ==
    \/ \E q \in {1} : EmbedStart(q)
    \/ \E q \in {1} : EmbedLoadErrors(q)
    \/ \E q \in {1} : EmbedLoop(q)
    \/ \E q \in {1} : EmbedRead(q)
    \/ \E q \in {1} : EmbedSave(q)
    \/ \E q \in {1} : EmbedSaveLost(q)
    \/ \E q \in {1} : EmbedSaveCheckpoint(q)
    \/ \E q \in {1} : EmbedRewriteLog(q)
    \/ \E q \in {1} : EmbedRaise(q)
    \/ \E q \in {1} : EmbedLogRead(q)
    \/ \E q \in {1} : EmbedLogWrite(q)
    \/ \E q \in {1} : EmbedAbort(q)

\* The embedding stage alone: the other functions' state stays as set up.
InitEmbed ==
    StarterIdle /\ EmbedInit /\ ParsersIdle /\ DetectIdle /\ ExtraIdle

SpecEmbedSerial ==
    InitEmbed /\ [][EmbedSerialNext]_vars

\* Invocations of process_chunking that do not overlap: one instance, run
\* again and again.
ChunkSerialNext ==
    \/ \E p \in {1} : ChunkStart(p)
    \/ \E p \in {1} : ChunkLoadFailed(p)
    \/ \E p \in {1} : ChunkLoop(p)
    \/ \E p \in {1} : ChunkUpload(p)
    \/ \E p \in {1} : ChunkSaveCheckpoint(p)
    \/ \E p \in {1} : ChunkRaise(p)
    \/ \E p \in {1} : ChunkLogRead(p)
    \/ \E p \in {1} : ChunkLogWrite(p)
    \/ \E p \in {1} : ChunkAbort(p)

\* The chunking stage alone.
InitChunk ==
    StarterIdle /\ ChunkInit /\ EmbedIdle /\ ParsersIdle /\ DetectIdle
        /\ ExtraIdle

SpecChunkSerial ==
    InitChunk /\ [][ChunkSerialNext]_vars

\* The starter alone.
InitStarter ==
    StarterInit /\ ChunkInit /\ EmbedIdle /\ ParsersIdle /\ DetectIdle
        /\ ExtraIdle

SpecStarter ==
    InitStarter /\ [][StarterNext]_vars

SpecChunk ==
    InitChunk /\ [][ChunkNext]_vars

(***************************************************************************)
(* The remote service.  batch_process_documents starts the operation with  *)
(* the lowest unused name; an operation runs until it ends, with or        *)
(* without an error.                                                       *)
(***************************************************************************)
Unborn ==
    {o \in Ops : operation[o] = "unborn"}

NextOp ==
    CHOOSE o \in Unborn : \A x \in Unborn : o <= x

\* batch_process_documents calls issued so far.
BatchCalls ==
    Cardinality(Ops \ Unborn)

\* The operation ends on the service's side.
OperationEnds(o, outcome) ==
    /\ operation[o] = "running"
    /\ operation' = [operation EXCEPT ![o] = outcome]
    /\ UNCHANGED <<parse_manifest, blobMetadata, processCalls, finalized,
                   job, jobRuns, jobFaults>>
    /\ UNCHANGED notParser

\* The script dies: an exception nothing catches, or the process is killed.
JobCrash ==
    /\ job.pc # "idle"
    /\ job' = JobIdle
    /\ UNCHANGED <<parse_manifest, blobMetadata, operation, processCalls,
                   finalized, jobRuns, jobFaults>>
    /\ UNCHANGED notParser

\* A new invocation: the history fields record what it found.
Begin(pc0, data0) ==
    [JobIdle EXCEPT !.pc = pc0, !.data = data0, !.entry = parse_manifest,
                    !.calls = BatchCalls]

(***************************************************************************)
(* example_code/parser_openai.py                                           *)
(***************************************************************************)

\* get_parse_manifest, lines 82-94.
get_parse_manifest ==
    IF Exists(parse_manifest) THEN Content(parse_manifest)
    ELSE [lro_id |-> 0, status |-> "NEW", start_time |-> "None",
          end_time |-> "None", error |-> "None"]

\* main, lines 231-257, up to the call the status selects.
OaMain ==
    LET parse_data == get_parse_manifest
        status == parse_data.status
    IN  /\ job.pc = "idle"
        /\ jobRuns < MaxJobRuns
        /\ jobRuns' = jobRuns + 1
        /\ job' = Begin(CASE status = "NEW" -> "start_lro"
                          [] status = "IN_PROGRESS" -> "check_lro_status"
                          [] status = "SUCCESS" -> "combine_outputs"
                          [] OTHER -> "idle",
                        parse_data)
        /\ UNCHANGED <<parse_manifest, blobMetadata, operation,
                       processCalls, finalized, jobFaults>>
        /\ UNCHANGED notParser

\* start_lro, lines 145-153: the batch call, then the local record.
OaBatch ==
    /\ job.pc = "start_lro"
    /\ Unborn # {}
    /\ operation' = [operation EXCEPT ![NextOp] = "running"]
    /\ job' = [job EXCEPT !.op = NextOp,
                          !.data = [@ EXCEPT !.lro_id = NextOp,
                                             !.status = "IN_PROGRESS",
                                             !.start_time = "now",
                                             !.end_time = "None",
                                             !.error = "None"],
                          !.pc = "save_started"]
    /\ UNCHANGED <<parse_manifest, blobMetadata, processCalls, finalized,
                   jobRuns, jobFaults>>
    /\ UNCHANGED notParser

\* start_lro, line 155.
OaSaveStarted ==
    /\ job.pc = "save_started"
    /\ parse_manifest' = Blob(job.data)
    /\ job' = JobIdle
    /\ UNCHANGED <<blobMetadata, operation, processCalls, finalized,
                   jobRuns, jobFaults>>
    /\ UNCHANGED notParser

\* save_parse_manifest raises at line 155: @Retry (line 109) calls
\* start_lro again with the same, already changed, parse_data.
OaStartRetry ==
    /\ job.pc = "save_started"
    /\ jobFaults < MaxJobFaults
    /\ jobFaults' = jobFaults + 1
    /\ job' = [job EXCEPT !.pc = "start_lro"]
    /\ UNCHANGED <<parse_manifest, blobMetadata, operation, processCalls,
                   finalized, jobRuns>>
    /\ UNCHANGED notParser

\* check_lro_status, lines 166-196, up to the save.
OaCheck ==
    LET lro_id == job.data.lro_id
    IN  /\ job.pc = "check_lro_status"
        /\ IF lro_id = 0 \/ operation[lro_id] = "running"
           THEN job' = JobIdle
           ELSE job' = [job EXCEPT
                   !.op = lro_id,
                   !.data = IF operation[lro_id] = "error"
                            THEN [@ EXCEPT !.status = "FAILED",
                                           !.end_time = "now",
                                           !.error = "message"]
                            ELSE [@ EXCEPT !.status = "SUCCESS",
                                           !.end_time = "now",
                                           !.error = "None"],
                   !.pc = "save_final"]
        /\ UNCHANGED <<parse_manifest, blobMetadata, operation,
                       processCalls, finalized, jobRuns, jobFaults>>
        /\ UNCHANGED notParser

\* check_lro_status, line 188 or 196.
OaSaveFinal ==
    /\ job.pc = "save_final"
    /\ parse_manifest' = Blob(job.data)
    /\ job' = JobIdle
    /\ UNCHANGED <<blobMetadata, operation, processCalls, finalized,
                   jobRuns, jobFaults>>
    /\ UNCHANGED notParser

\* combine_outputs, lines 210-219, called at line 255: the finalization
\* of the operation the checkpoint names.
OaCombine ==
    LET lro_id == job.data.lro_id
    IN  /\ job.pc = "combine_outputs"
        /\ finalized' = IF lro_id = 0 THEN finalized
                        ELSE [finalized EXCEPT ![lro_id] = @ + 1]
        /\ job' = JobIdle
        /\ UNCHANGED <<parse_manifest, blobMetadata, operation,
                       processCalls, jobRuns, jobFaults>>
        /\ UNCHANGED notParser

OpenaiNext ==
    \/ \E o \in Ops, outcome \in {"done", "error"} : OperationEnds(o, outcome)
    \/ JobCrash
    \/ OaMain
    \/ OaBatch
    \/ OaSaveStarted
    \/ OaStartRetry
    \/ OaCheck
    \/ OaSaveFinal
    \/ OaCombine

\* The other functions' variables stay as set up.
OthersIdle ==
    StarterIdle /\ ChunkInit /\ EmbedIdle /\ DetectIdle /\ ExtraIdle

InitParsers ==
    OthersIdle /\ ParsersIdle

SpecOpenai ==
    InitParsers /\ [][OpenaiNext]_vars

(***************************************************************************)
(* example_code/parser_deepsk.py.  The parse manifest is a JSON object     *)
(* that holds only the keys written so far.                                *)
(***************************************************************************)

\* _load_parse_manifest, lines 150-156: the stored object, or {} when the
\* download raises, whether because the object is missing or because the
\* read failed (the bare except of line 155 does not tell them apart).
_load_parse_manifest(failed) ==
    IF Exists(parse_manifest) /\ ~failed THEN Content(parse_manifest)
    ELSE EmptyDict

\* _update_parse_manifest, lines 160-166: manifest.update(updates), saved.
_update_parse_manifest(updates, failed) ==
    Blob(updates @@ _load_parse_manifest(failed))

\* A read of the stored manifest fails only where there is one to read.
ReadFault(failed) ==
    /\ failed => (Exists(parse_manifest) /\ jobFaults < MaxJobFaults)
    /\ jobFaults' = IF failed THEN jobFaults + 1 ELSE jobFaults

\* process_upload_folder, lines 37-47: called by main, or called again by
\* @Retry (line 28) after a GoogleAPICallError.
DsBegin(failed) ==
    LET state == _load_parse_manifest(failed)
    IN  /\ job.pc \in {"idle", "retry"}
        /\ job.pc = "idle" => jobRuns < MaxJobRuns
        /\ jobRuns' = IF job.pc = "idle" THEN jobRuns + 1 ELSE jobRuns
        /\ ReadFault(failed)
        /\ job' = Begin(IF DictGet(state, "status", "None") = "SUCCESS"
                        THEN "idle"
                        ELSE IF DictGet(state, "lro_id", 0) # 0
                        THEN "get_operation"
                        ELSE "start_lro",
                        state)
        /\ UNCHANGED <<parse_manifest, blobMetadata, operation,
                       processCalls, finalized>>
        /\ UNCHANGED notParser

\* line 48: the operation the manifest names is fetched.
DsGetOperation ==
    /\ job.pc = "get_operation"
    /\ job' = [job EXCEPT !.op = job.data.lro_id, !.pc = "monitor"]
    /\ UNCHANGED <<parse_manifest, blobMetadata, operation, processCalls,
                   finalized, jobRuns, jobFaults>>
    /\ UNCHANGED notParser

\* lines 50-51: the manifest is validated and the batch call is issued.
DsBatch ==
    /\ job.pc = "start_lro"
    /\ Unborn # {}
    /\ operation' = [operation EXCEPT ![NextOp] = "running"]
    /\ job' = [job EXCEPT !.op = NextOp, !.pc = "record"]
    /\ UNCHANGED <<parse_manifest, blobMetadata, processCalls, finalized,
                   jobRuns, jobFaults>>
    /\ UNCHANGED notParser

\* lines 52-56.
DsRecord(failed) ==
    /\ job.pc = "record"
    /\ ReadFault(failed)
    /\ parse_manifest' =
           _update_parse_manifest([lro_id |-> job.op,
                                   status |-> "IN_PROGRESS",
                                   start_time |-> "now"], failed)
    /\ job' = [job EXCEPT !.pc = "monitor"]
    /\ UNCHANGED <<blobMetadata, operation, processCalls, finalized,
                   jobRuns>>
    /\ UNCHANGED notParser

\* _monitor_operation, lines 106-112: the operation is not done.
DsPollNotDone(failed) ==
    /\ job.pc = "monitor"
    /\ operation[job.op] = "running"
    /\ ReadFault(failed)
    /\ parse_manifest' =
           _update_parse_manifest([status |-> "IN_PROGRESS",
                                   last_checked |-> "now"], failed)
    /\ job' = [job EXCEPT !.before = Blob(parse_manifest)]
    /\ UNCHANGED <<blobMetadata, operation, processCalls, finalized,
                   jobRuns>>
    /\ UNCHANGED notParser

\* lines 114-124: the operation ended with an error; the exception is
\* raised again and @Retry either calls process_upload_folder again or,
\* its deadline passed, lets it through to main.
DsMonitorError(failed, retried) ==
    /\ job.pc = "monitor"
    /\ operation[job.op] = "error"
    /\ ReadFault(failed)
    /\ parse_manifest' =
           _update_parse_manifest([status |-> "FAILED",
                                   error |-> "message"], failed)
    /\ job' = IF retried THEN [JobIdle EXCEPT !.pc = "retry"] ELSE JobIdle
    /\ UNCHANGED <<blobMetadata, operation, processCalls, finalized,
                   jobRuns>>
    /\ UNCHANGED notParser

\* lines 117 and 128: _generate_unstructured_data writes the combined text.
DsGenerate ==
    /\ job.pc = "monitor"
    /\ operation[job.op] = "done"
    /\ finalized' = [finalized EXCEPT ![job.op] = @ + 1]
    /\ job' = [job EXCEPT !.before = Absent, !.pc = "mark_success"]
    /\ UNCHANGED <<parse_manifest, blobMetadata, operation, processCalls,
                   jobRuns, jobFaults>>
    /\ UNCHANGED notParser

\* lines 129-132.
DsMarkSuccess(failed) ==
    /\ job.pc = "mark_success"
    /\ ReadFault(failed)
    /\ parse_manifest' =
           _update_parse_manifest([status |-> "SUCCESS",
                                   end_time |-> "now"], failed)
    /\ job' = JobIdle
    /\ UNCHANGED <<blobMetadata, operation, processCalls, finalized,
                   jobRuns>>
    /\ UNCHANGED notParser

DeepskNext ==
    \/ \E o \in Ops, outcome \in {"done", "error"} : OperationEnds(o, outcome)
    \/ JobCrash
    \/ \E failed \in BOOLEAN : DsBegin(failed)
    \/ DsGetOperation
    \/ DsBatch
    \/ \E failed \in BOOLEAN : DsRecord(failed)
    \/ \E failed \in BOOLEAN : DsPollNotDone(failed)
    \/ \E failed, retried \in BOOLEAN : DsMonitorError(failed, retried)
    \/ DsGenerate
    \/ \E failed \in BOOLEAN : DsMarkSuccess(failed)

SpecDeepsk ==
    InitParsers /\ [][DeepskNext]_vars

(***************************************************************************)
(* functions/lro_status_checker/main.py.  The custom metadata of a chunk   *)
(* blob is a dict; its "lro_id" is an operation name or the mark that      *)
(* handle_chunk_lro leaves.                                                *)
(***************************************************************************)

\* The string "DONE" of line 67, kept apart from every operation name.
DoneMark ==
    -1

MetadataSpace ==
    {EmptyDict} \cup {("lro_id" :> o) : o \in Ops}

\* Chunk blobs that carry the name of a running operation, or none.
CheckerInit ==
    /\ parse_manifest = Absent
    /\ blobMetadata \in [ChunkBlobNames -> MetadataSpace]
    /\ operation = [o \in Ops |-> "running"]
    /\ processCalls = [f \in FileNames |-> 0]
    /\ finalized = [o \in Ops |-> 0]
    /\ job = JobIdle
    /\ jobRuns = 0
    /\ jobFaults = 0

\* check_lro_status, lines 33-40: op.done() refreshes the operation and
\* returns its done flag, which is set whether or not it carries an error.
check_lro_status(lro_id) ==
    operation[lro_id] # "running"

\* poll_chunks, lines 81-86: the blobs of the bucket are listed.
PcStart ==
    /\ job.pc = "idle"
    /\ jobRuns < MaxJobRuns
    /\ jobRuns' = jobRuns + 1
    /\ job' = [JobIdle EXCEPT !.pc = "poll", !.todo = ChunkBlobNames]
    /\ UNCHANGED <<parse_manifest, blobMetadata, operation, processCalls,
                   finalized, jobFaults>>
    /\ UNCHANGED notParser

\* handle_chunk_lro, lines 57-65 and 71, for the next listed blob.  No
\* operation is named "DONE": the refresh of line 40 raises for it, and
\* nothing in poll_chunks catches the exception.
PcHandle(b) ==
    LET metadata_ == blobMetadata[b]
        lro_id == DictGet(metadata_, "lro_id", 0)
    IN  /\ job.pc = "poll"
        /\ b \in job.todo
        /\ IF lro_id = 0
           THEN /\ job' = [job EXCEPT !.todo = @ \ {b}]
                /\ UNCHANGED finalized
           ELSE IF lro_id = DoneMark
           THEN /\ job' = JobIdle
                /\ UNCHANGED finalized
           ELSE IF check_lro_status(lro_id)
           THEN /\ finalized' = [finalized EXCEPT ![lro_id] = @ + 1]
                /\ job' = [job EXCEPT !.file = b, !.op = lro_id,
                                      !.pc = "patch"]
           ELSE /\ job' = [job EXCEPT !.todo = @ \ {b}]
                /\ UNCHANGED finalized
        /\ UNCHANGED <<parse_manifest, blobMetadata, operation,
                       processCalls, jobRuns, jobFaults>>
        /\ UNCHANGED notParser

\* handle_chunk_lro, lines 67-69.
PcPatch ==
    /\ job.pc = "patch"
    /\ blobMetadata' = [blobMetadata EXCEPT ![job.file] =
                           ("lro_id" :> DoneMark) @@ @]
    /\ job' = [job EXCEPT !.todo = @ \ {job.file}, !.file = "", !.op = 0,
                          !.pc = "poll"]
    /\ UNCHANGED <<parse_manifest, operation, processCalls, finalized,
                   jobRuns, jobFaults>>
    /\ UNCHANGED notParser

\* poll_chunks, line 89.
PcReturn ==
    /\ job.pc = "poll"
    /\ job.todo = {}
    /\ job' = JobIdle
    /\ UNCHANGED <<parse_manifest, blobMetadata, operation, processCalls,
                   finalized, jobRuns, jobFaults>>
    /\ UNCHANGED notParser

CheckerNext ==
    \/ \E o \in Ops, outcome \in {"done", "error"} : OperationEnds(o, outcome)
    \/ JobCrash
    \/ PcStart
    \/ \E b \in ChunkBlobNames : PcHandle(b)
    \/ PcPatch
    \/ PcReturn

InitChecker ==
    OthersIdle /\ CheckerInit

SpecChecker ==
    InitChecker /\ [][CheckerNext]_vars

(***************************************************************************)
(* example_code/layout_parser.py.  parse_manifest.json is the list of the  *)
(* files' entries: a function from the file names that have an entry.      *)
(***************************************************************************)

\* get_file_entry, lines 123-126, and the new entry of lines 166-173.
get_file_entry(parse_list, filename) ==
    IF filename \in DOMAIN parse_list THEN parse_list[filename]
    ELSE [process_id |-> "None", status |-> "NEW", filename |-> filename,
          start_time |-> "None", end_time |-> "None", error |-> "None"]

\* load_parse_manifest, lines 102-107.
load_parse_manifest ==
    IF Exists(parse_manifest) THEN Content(parse_manifest) ELSE EmptyDict

\* The status a stored manifest holds for a file.
FileStatus(cp, filename) ==
    IF Exists(cp) /\ filename \in DOMAIN Content(cp)
    THEN Content(cp)[filename].status
    ELSE "NEW"

\* The entry of a file in a list, replaced or appended.
WithEntry(parse_list, entry) ==
    (entry.filename :> entry) @@ parse_list

\* main, lines 252-260.
LpMain ==
    /\ job.pc = "idle"
    /\ jobRuns < MaxJobRuns
    /\ jobRuns' = jobRuns + 1
    /\ job' = [JobIdle EXCEPT !.pc = "files", !.data = load_parse_manifest,
                              !.todo = FileNames, !.entry = parse_manifest,
                              !.calls = processCalls]
    /\ UNCHANGED <<parse_manifest, blobMetadata, operation, processCalls,
                   finalized, jobFaults>>
    /\ UNCHANGED notParser

\* process_single_file, lines 164-185, for the next file of the manifest.
LpEnter(filename) ==
    LET entry == get_file_entry(job.data, filename)
    IN  /\ job.pc = "files"
        /\ filename \in job.todo
        /\ IF entry.status = "SUCCESS"
           THEN job' = [job EXCEPT !.todo = @ \ {filename}]
           ELSE job' = [job EXCEPT
                   !.file = filename,
                   !.data = WithEntry(@, [entry EXCEPT
                                !.status = "IN_PROGRESS",
                                !.start_time = "now",
                                !.end_time = "None",
                                !.error = "None",
                                !.process_id = "processor"]),
                   !.pc = "save_in_progress"]
        /\ UNCHANGED <<parse_manifest, blobMetadata, operation,
                       processCalls, finalized, jobRuns, jobFaults>>
        /\ UNCHANGED notParser

\* line 187.
LpSaveInProgress ==
    /\ job.pc = "save_in_progress"
    /\ parse_manifest' = Blob(job.data)
    /\ job' = [job EXCEPT !.pc = "process_document"]
    /\ UNCHANGED <<blobMetadata, operation, processCalls, finalized,
                   jobRuns, jobFaults>>
    /\ UNCHANGED notParser

\* lines 204-205: the call is issued.
LpProcess ==
    /\ job.pc = "process_document"
    /\ processCalls' = [processCalls EXCEPT ![job.file] = @ + 1]
    /\ job' = [job EXCEPT !.pc = "called"]
    /\ UNCHANGED <<parse_manifest, blobMetadata, operation, finalized,
                   jobRuns, jobFaults>>
    /\ UNCHANGED notParser

\* lines 206-212 when the call raised, lines 216-239 when it returned.
LpResult(ok) ==
    LET entry == get_file_entry(job.data, job.file)
        parse_list ==
            WithEntry(job.data,
                      IF ok THEN [entry EXCEPT !.status = "SUCCESS",
                                               !.end_time = "now",
                                               !.error = "None"]
                      ELSE [entry EXCEPT !.status = "FAILED",
                                         !.end_time = "now",
                                         !.error = "message"])
    IN  /\ job.pc = "called"
        /\ parse_manifest' = Blob(parse_list)
        /\ job' = [job EXCEPT !.data = parse_list, !.file = "",
                              !.todo = @ \ {job.file}, !.pc = "files"]
        /\ UNCHANGED <<blobMetadata, operation, processCalls, finalized,
                       jobRuns, jobFaults>>
        /\ UNCHANGED notParser

\* main, lines 267-272.
LpFinish ==
    /\ job.pc = "files"
    /\ job.todo = {}
    /\ parse_manifest' = Blob(job.data)
    /\ job' = JobIdle
    /\ UNCHANGED <<blobMetadata, operation, processCalls, finalized,
                   jobRuns, jobFaults>>
    /\ UNCHANGED notParser

LayoutNext ==
    \/ JobCrash
    \/ LpMain
    \/ \E filename \in FileNames : LpEnter(filename)
    \/ LpSaveInProgress
    \/ LpProcess
    \/ \E ok \in BOOLEAN : LpResult(ok)
    \/ LpFinish

SpecLayout ==
    InitParsers /\ [][LayoutNext]_vars

(***************************************************************************)
(* The completeness checks as functions of the stored objects:             *)
(* check_manifest_and_decide of functions/document_parser/main.py and      *)
(* check_all_chunks_present of functions/lro_starter/main.py.  A name of   *)
(* CHUNK_BUCKET is <<stem, marker, tail>>, standing for the string         *)
(* stem + marker + tail, so that the prefix test of line 98 is computed.   *)
(***************************************************************************)
FilePrefix ==
    "sample"

\* {folder_prefix}/manifests_{file_prefix}.json, line 85.
ManifestsName(file_prefix) ==
    <<"manifests_", file_prefix, ".json">>

ChunkBucketNames ==
    {<<FilePrefix, "_chunk_", "1.pdf">>}

ChunkBucketUniverse ==
    {Flat(UnitFolder, n) : n \in ChunkBucketNames \cup
                                     {ManifestsName(FilePrefix)}}

ManifestsSpace ==
    {[num_chunks |-> k, chunk_files |-> ChunkBucketNames] : k \in 1..2}

\* check_all_chunks_present, lines 85-108.
check_all_chunks_present(folder_prefix, file_prefix) ==
    LET manifest_blob_path == Flat(folder_prefix, ManifestsName(file_prefix))
        expected_chunks == DictGet(manifestsContent, "num_chunks", 0)
        expected_chunk_files == DictGet(manifestsContent, "chunk_files", {})
        actual_chunk_files ==
            {q[2] : q \in {p \in chunkBucket :
                              /\ p[1] = folder_prefix
                              /\ p[2][1] = file_prefix
                              /\ p[2][2] = "_chunk_"}}
    IN  IF manifest_blob_path \notin chunkBucket THEN FALSE
        ELSE /\ Cardinality(actual_chunk_files) = expected_chunks
             /\ expected_chunk_files = actual_chunk_files

DetectInit ==
    /\ chunkBucket = {}
    /\ manifestsContent \in ManifestsSpace
    /\ verdict = Absent
    /\ evalTick = FALSE

\* An object becomes visible in CHUNK_BUCKET.
UploadChunk(p) ==
    /\ p \notin chunkBucket
    /\ chunkBucket' = chunkBucket \cup {p}
    /\ UNCHANGED <<manifestsContent, verdict, evalTick>>
    /\ UNCHANGED <<starterVars, chunkVars, embedVars, parserVars, extraVars>>

\* A plausible slip: the check leaves a record of its verdict in the
\* metadata object of the folder.
EvaluateDecide_Records(folder_prefix) ==
    /\ verdict' = Blob([by |-> "check_manifest_and_decide",
                        result |-> check_manifest_and_decide(folder_prefix)])
    /\ evalTick' = ~evalTick
    /\ metadata' = [metadata EXCEPT ![folder_prefix] =
                       Blob([status |-> "CHECKED"])]
    /\ UNCHANGED <<chunkBucket, manifestsContent>>
    /\ UNCHANGED <<bucket, manifestContent, outputs, batchCalls,
                   singleCalls, pc, hFolder, hEntry, hLro, triggers,
                   lastEval, sawWait>>
    /\ UNCHANGED <<chunkVars, embedVars, parserVars, extraVars>>

\* check_manifest_and_decide, lines 83-104, is evaluated.
EvaluateDecide(folder_prefix) ==
    /\ verdict' = Blob([by |-> "check_manifest_and_decide",
                        result |-> check_manifest_and_decide(folder_prefix)])
    /\ evalTick' = ~evalTick
    /\ UNCHANGED <<chunkBucket, manifestsContent>>
    /\ UNCHANGED <<starterVars, chunkVars, embedVars, parserVars, extraVars>>

\* check_all_chunks_present, lines 85-108, is evaluated.
EvaluatePresent(folder_prefix, file_prefix) ==
    /\ verdict' = Blob([by |-> "check_all_chunks_present",
                        result |-> check_all_chunks_present(folder_prefix,
                                                            file_prefix)])
    /\ evalTick' = ~evalTick
    /\ UNCHANGED <<chunkBucket, manifestsContent>>
    /\ UNCHANGED <<starterVars, chunkVars, embedVars, parserVars, extraVars>>

DetectNext ==
    \/ \E p \in ObjUniverse : Upload(p)
    \/ \E p \in ChunkBucketUniverse : UploadChunk(p)
    \/ \E f \in FolderKeys : EvaluateDecide(f)
    \/ \E f \in FolderKeys : EvaluatePresent(f, FilePrefix)

InitDetect ==
    StarterInit /\ ChunkInit /\ EmbedIdle /\ ParsersIdle /\ DetectInit
        /\ ExtraIdle

SpecDetect ==
    InitDetect /\ [][DetectNext]_vars

(***************************************************************************)
(* Uploader_processor/chunker.py, Uploader_processor/gcs_utils.py and      *)
(* functions/Uploader_processor/main.py.  A file is the sequence of its    *)
(* bytes; the megabyte of the model has MB bytes.                          *)
(***************************************************************************)

Files ==
    UNION {[1..n -> ByteValues] : n \in 0..MaxFileLen}

\* A plausible slip: a last read shorter than chunk_bytes is dropped.
RECURSIVE ReadChunks_DropsTail(_, _)
ReadChunks_DropsTail(rest, chunk_bytes) ==
    IF Len(rest) < chunk_bytes \/ rest = <<>> THEN <<>>
    ELSE <<SubSeq(rest, 1, chunk_bytes)>>
             \o ReadChunks_DropsTail(SubSeq(rest, chunk_bytes + 1,
                                            Len(rest)), chunk_bytes)

\* A plausible slip: the emptiness test comes after the write, so the
\* empty read that ends the file is written as a chunk too.
RECURSIVE ReadChunks_EmptyTail(_, _)
ReadChunks_EmptyTail(rest, chunk_bytes) ==
    LET n == IF chunk_bytes < 0 \/ chunk_bytes > Len(rest)
             THEN Len(rest) ELSE chunk_bytes
        data == SubSeq(rest, 1, n)
    IN  IF data = <<>> THEN <<data>>
        ELSE <<data>> \o ReadChunks_EmptyTail(
                             SubSeq(rest, n + 1, Len(rest)), chunk_bytes)

\* chunker.py, lines 25-28 and 34: what the successive infile.read(
\* chunk_bytes) return, up to the first empty one.  read(n) of a regular
\* file gives n bytes, or all that are left when fewer (or n < 0).
RECURSIVE ReadChunks(_, _)
ReadChunks(rest, chunk_bytes) ==
    LET n == IF chunk_bytes < 0 \/ chunk_bytes > Len(rest)
             THEN Len(rest) ELSE chunk_bytes
        data == SubSeq(rest, 1, n)
    IN  IF data = <<>> THEN <<>>
        ELSE <<data>> \o ReadChunks(SubSeq(rest, n + 1, Len(rest)),
                                    chunk_bytes)

\* split_file_into_chunks: the chunk files it writes, in order, each with
\* its path (the source's chunk_bytes is chunk_size_mb * 1024 * 1024).
split_file_into_chunks(local_path, chunk_size_mb) ==
    LET chunk_bytes == chunk_size_mb * MB
        pieces == ReadChunks(Content(tmp[local_path]), chunk_bytes)
    IN  [i \in 1..Len(pieces) |->
            [path |-> ChunkPath(local_path, i - 1), data |-> pieces[i]]]

\* The files of /tmp after split_file_into_chunks wrote those chunks.
WithChunkFiles(written) ==
    [p \in TmpPaths |->
        IF \E i \in 1..Len(written) : written[i].path = p
        THEN Blob((CHOOSE c \in {written[i] : i \in 1..Len(written)} :
                       c.path = p).data)
        ELSE tmp[p]]

\* A file of any content is at local_path, and the chunk size is chosen.
SplitInit ==
    /\ CHUNK_SIZE_MB \in 1..MaxChunkMb
    /\ upFile \in Files
    /\ tmp = [p \in TmpPaths |-> IF p = LocalPath THEN Blob(upFile)
                                 ELSE Absent]
    /\ chunk_paths = <<>>
    /\ chunk_uris = <<>>
    /\ sourceObjects = [b \in BlobNames |-> Absent]
    /\ upPc = "idle"

\* split_file_into_chunks(local_path, chunk_size_mb) is called and returns.
SplitFile ==
    LET written == split_file_into_chunks(LocalPath, CHUNK_SIZE_MB)
    IN  /\ upPc = "idle"
        /\ tmp' = WithChunkFiles(written)
        /\ chunk_paths' = [i \in 1..Len(written) |-> written[i].path]
        /\ upPc' = "split"
        /\ UNCHANGED <<CHUNK_SIZE_MB, upFile, chunk_uris, sourceObjects>>
        /\ UNCHANGED notUploader

SplitNext ==
    SplitFile

InitSplit ==
    StarterIdle /\ ChunkInit /\ EmbedIdle /\ ParsersIdle /\ DetectIdle
        /\ SplitInit /\ RetryIdle /\ RaceIdle

SpecSplit ==
    InitSplit /\ [][SplitNext]_vars

\* A request with a file of any content is about to arrive; CHUNK_SIZE_MB
\* is a positive number of megabytes.
UploaderInit ==
    /\ CHUNK_SIZE_MB \in 1..MaxChunkMb
    /\ upFile \in Files
    /\ tmp = [p \in TmpPaths |-> Absent]
    /\ chunk_paths = <<>>
    /\ chunk_uris = <<>>
    /\ sourceObjects = [b \in BlobNames |-> Absent]
    /\ upPc = "idle"

\* upload_document, lines 55-61: the body is written to local_path.
UpReceive ==
    /\ upPc = "idle"
    /\ tmp' = [tmp EXCEPT ![LocalPath] = Blob(upFile)]
    /\ upPc' = "received"
    /\ UNCHANGED <<CHUNK_SIZE_MB, upFile, chunk_paths, chunk_uris,
                   sourceObjects>>
    /\ UNCHANGED notUploader

\* upload_document, lines 64-70: file_size_mb = size / (1024 * 1024) is
\* compared with CHUNK_SIZE_MB.
UpDecide ==
    LET size == Len(Content(tmp[LocalPath]))
        written == split_file_into_chunks(LocalPath, CHUNK_SIZE_MB)
    IN  /\ upPc = "received"
        /\ IF size <= CHUNK_SIZE_MB * MB
           THEN /\ chunk_paths' = <<LocalPath>>
                /\ tmp' = tmp
           ELSE /\ chunk_paths' = [i \in 1..Len(written) |->
                                      written[i].path]
                /\ tmp' = WithChunkFiles(written)
        /\ upPc' = "upload"
        /\ UNCHANGED <<CHUNK_SIZE_MB, upFile, chunk_uris, sourceObjects>>
        /\ UNCHANGED notUploader

\* upload_to_gcs, lines 32-37: one iteration of the loop.
UpUploadChunk ==
    LET local_path == chunk_paths[Len(chunk_uris) + 1]
        blob_name == <<FolderUuid, Basename(local_path)>>
    IN  /\ upPc = "upload"
        /\ Len(chunk_uris) < Len(chunk_paths)
        /\ sourceObjects' = [sourceObjects EXCEPT ![blob_name] =
                                tmp[local_path]]
        /\ chunk_uris' = Append(chunk_uris, <<"gs://SOURCE_BUCKET">>
                                                \o blob_name)
        /\ UNCHANGED <<CHUNK_SIZE_MB, upFile, tmp, chunk_paths, upPc>>
        /\ UNCHANGED notUploader

\* A plausible slip: the manifest counts the chunks of a split file from
\* the last index.
create_manifest_LastIndex(original_filename, uris) ==
    [original_filename |-> original_filename,
     num_chunks |-> Len(uris) - 1,
     chunk_files |-> [i \in 1..Len(uris) |-> Basename(uris[i])]]

\* create_manifest, lines 61-66 (the timestamp, which nothing reads, is
\* left out).
create_manifest(original_filename, uris) ==
    [original_filename |-> original_filename,
     num_chunks |-> Len(uris),
     chunk_files |-> [i \in 1..Len(uris) |-> Basename(uris[i])]]

\* upload_document, lines 77-82, and create_manifest, lines 68-72.
UpCreateManifest ==
    /\ upPc = "upload"
    /\ Len(chunk_uris) = Len(chunk_paths)
    /\ sourceObjects' =
           [sourceObjects EXCEPT ![<<FolderUuid, ManifestName>>] =
               Blob(create_manifest(UpFilename, chunk_uris))]
    /\ upPc' = "cleanup"
    /\ UNCHANGED <<CHUNK_SIZE_MB, upFile, tmp, chunk_paths, chunk_uris>>
    /\ UNCHANGED notUploader

\* upload_document, lines 85-103: the local files are removed and the
\* response is sent.
UpCleanup ==
    /\ upPc = "cleanup"
    /\ tmp' = [p \in TmpPaths |-> Absent]
    /\ upPc' = "done"
    /\ UNCHANGED <<CHUNK_SIZE_MB, upFile, chunk_paths, chunk_uris,
                   sourceObjects>>
    /\ UNCHANGED notUploader

\* upload_document, lines 104-106: a call of the try block raises and the
\* request ends with status 500.
UpRaise ==
    /\ upPc \in {"received", "upload"}
    /\ upPc' = "failed"
    /\ UNCHANGED <<CHUNK_SIZE_MB, upFile, tmp, chunk_paths, chunk_uris,
                   sourceObjects>>
    /\ UNCHANGED notUploader

UploaderNext ==
    \/ UpReceive
    \/ UpDecide
    \/ UpUploadChunk
    \/ UpCreateManifest
    \/ UpCleanup
    \/ UpRaise

InitUploader ==
    StarterIdle /\ ChunkInit /\ EmbedIdle /\ ParsersIdle /\ DetectIdle
        /\ UploaderInit /\ RetryIdle /\ RaceIdle

SpecUploader ==
    InitUploader /\ [][UploaderNext]_vars

(***************************************************************************)
(* start_lro of functions/document_parser and poll_chunks of               *)
(* functions/lro_status_checker side by side: the batch started for a      *)
(* complete unit, the service ending it, and the scheduled sweeps.         *)
(***************************************************************************)

\* start_lro, line 158: the request is sent and the service starts the
\* operation, whose name is the number of the call.
LroBegins(h) ==
    /\ pc[h] = "start_lro"
    /\ batchCalls[hFolder[h]] < MaxCalls
    /\ batchCalls[hFolder[h]] + 1 \in Ops
    /\ batchCalls' = [batchCalls EXCEPT ![hFolder[h]] = @ + 1]
    /\ operation' = [operation EXCEPT ![batchCalls[hFolder[h]] + 1] =
                        "running"]
    /\ pc' = [pc EXCEPT ![h] = "lro_called"]
    /\ UNCHANGED <<bucket, manifestContent, metadata, outputs, singleCalls,
                   hFolder, hEntry, hLro, triggers, lastEval, sawWait>>
    /\ UNCHANGED <<parse_manifest, blobMetadata, processCalls, finalized,
                   job, jobRuns, jobFaults>>
    /\ UNCHANGED <<chunkVars, embedVars, detectVars, extraVars>>

\* poll_chunks, lines 81-86, called by the scheduler: every sweep starts
\* when the one before has returned, as often as the schedule runs.
PcSweep ==
    /\ job.pc = "idle"
    /\ job' = [JobIdle EXCEPT !.pc = "poll", !.todo = ChunkBlobNames]
    /\ UNCHANGED <<parse_manifest, blobMetadata, operation, processCalls,
                   finalized, jobRuns, jobFaults>>
    /\ UNCHANGED notParser

\* The unit is complete in SOURCE_BUCKET: the manifest declares the two
\* chunks stored beside it, and lro_starter, called for the first event
\* of the folder, has decided LRO (lines 210-220) and is about to call
\* start_lro.  The chunk blobs the checker lists carry any custom
\* metadata.
SweepInit ==
    /\ bucket = {Flat(UnitFolder, ManifestName)}
                    \cup {Flat(UnitFolder, c) : c \in ChunkSegs}
                    \cup {Nested(UnitFolder, Seg("chunk_", "001.pdf"))}
    /\ manifestContent = ("num_chunks" :> Cardinality(ChunkSegs))
                             @@ ("chunk_files" :> ChunkSegs)
    /\ metadata = [f \in FolderKeys |-> Absent]
    /\ outputs = [f \in FolderKeys |-> {}]
    /\ batchCalls = [f \in FolderKeys |-> 0]
    /\ singleCalls = [f \in FolderKeys |-> 0]
    /\ pc = [h \in Handlers |-> IF h = 1 THEN "start_lro" ELSE "idle"]
    /\ hFolder = [h \in Handlers |-> UnitFolder]
    /\ hEntry = [h \in Handlers |-> "NEW"]
    /\ hLro = [h \in Handlers |-> 0]
    /\ triggers = 1
    /\ lastEval = Blob([folder |-> UnitFolder,
                        result |-> "LRO",
                        manifest |-> TRUE,
                        listed |-> ChunkSegs,
                        visible |-> {ManifestName} \cup ChunkSegs,
                        handler |-> 1])
    /\ sawWait = FALSE
    /\ parse_manifest = Absent
    /\ blobMetadata \in [ChunkBlobNames -> MetadataSpace]
    /\ operation = [o \in Ops |-> "unborn"]
    /\ processCalls = [f \in FileNames |-> 0]
    /\ finalized = [o \in Ops |-> 0]
    /\ job = JobIdle
    /\ jobRuns = 0
    /\ jobFaults = 0

SweepNext ==
    \/ \E h \in Handlers : LroBegins(h)
    \/ \E h \in Handlers : StartLroReturn(h)
    \/ \E h \in Handlers : StartLroWrite(h)
    \/ \E h \in Handlers, retried \in BOOLEAN : StartLroRaises(h, retried)
    \/ \E o \in Ops, outcome \in {"done", "error"} : OperationEnds(o, outcome)
    \/ PcSweep
    \/ \E b \in ChunkBlobNames : PcHandle(b)
    \/ PcPatch
    \/ PcReturn

InitSweep ==
    SweepInit /\ ChunkInit /\ EmbedIdle /\ DetectIdle /\ ExtraIdle

\* The scheduler keeps calling poll_chunks and every sweep runs on.
SweepFairness ==
    /\ WF_vars(PcSweep)
    /\ WF_vars(\E b \in ChunkBlobNames : PcHandle(b))
    /\ WF_vars(PcPatch)
    /\ WF_vars(PcReturn)

SpecSweep ==
    InitSweep /\ [][SweepNext]_vars /\ SweepFairness

(***************************************************************************)
(* The functions decorated with @Retry: start_lro of                       *)
(* functions/document_parser and process_chunking of                       *)
(* functions/chunk_processor.  A call of the decorated function runs the   *)
(* function; when it raises an error the policy counts as transient, the   *)
(* caller sleeps and runs it again, the nominal sleep starting at initial  *)
(* and growing by multiplier up to maximum, until deadline seconds have    *)
(* passed since the first attempt.  Times are whole seconds.               *)
(***************************************************************************)

RetriedOps ==
    {"start_lro", "process_chunking"}

\* The arguments of the two decorators.
RetryPolicy(op) ==
    IF op = "start_lro"
    THEN [initial |-> 1, maximum |-> 60, multiplier |-> 2, deadline |-> 600]
    ELSE [initial |-> 2, maximum |-> 60, multiplier |-> 2, deadline |-> 600]

Min(a, b) ==
    IF a <= b THEN a ELSE b

\* The decorated function is called: the first attempt begins.
RetryBegin(op) ==
    /\ retry.pc = "idle"
    /\ retry' = [op |-> op, delay |-> RetryPolicy(op).initial,
                 elapsed |-> 0, waits |-> <<>>, pc |-> "attempt"]
    /\ UNCHANGED <<starterVars, chunkVars, embedVars, parserVars,
                   detectVars, uploaderVars, raceVars>>

\* The attempt returns, and so does the call.
AttemptReturns ==
    /\ retry.pc = "attempt"
    /\ retry' = [retry EXCEPT !.pc = "returned"]
    /\ UNCHANGED <<starterVars, chunkVars, embedVars, parserVars,
                   detectVars, uploaderVars, raceVars>>

\* The attempt raises after secs seconds.  An error that is not transient
\* leaves the call; a transient one after the deadline ends the call with
\* RetryError; otherwise the caller sleeps and the next attempt begins.
AttemptRaises(secs, transient) ==
    LET policy == RetryPolicy(retry.op)
        now == retry.elapsed + secs
        sleep == Min(retry.delay, policy.maximum)
    IN  /\ retry.pc = "attempt"
        /\ retry' =
               IF ~transient THEN [retry EXCEPT !.elapsed = now,
                                                !.pc = "raised"]
               ELSE IF now >= policy.deadline
               THEN [retry EXCEPT !.elapsed = now, !.pc = "retry_error"]
               ELSE [retry EXCEPT
                        !.elapsed = now + sleep,
                        !.waits = Append(@, sleep),
                        !.delay = Min(@ * policy.multiplier,
                                      policy.maximum)]
        /\ UNCHANGED <<starterVars, chunkVars, embedVars, parserVars,
                       detectVars, uploaderVars, raceVars>>

RetryNext ==
    \/ \E op \in RetriedOps : RetryBegin(op)
    \/ AttemptReturns
    \/ \E secs \in 0..MaxAttemptSecs, transient \in BOOLEAN :
           AttemptRaises(secs, transient)

InitRetry ==
    StarterIdle /\ ChunkInit /\ EmbedIdle /\ ParsersIdle /\ DetectIdle
        /\ ExtraIdle

SpecRetry ==
    InitRetry /\ [][RetryNext]_vars

(***************************************************************************)
(* example_code/parser_openai.py, main() started more than once for the    *)
(* same upload folder: every invocation runs main() once, and nothing      *)
(* keeps two of them from running at the same time.                        *)
(***************************************************************************)

\* No checkpoint is stored, no operation exists, no invocation has begun.
RaceInit ==
    /\ parse_manifest = Absent
    /\ blobMetadata = [b \in ChunkBlobNames |-> EmptyDict]
    /\ operation = [o \in Ops |-> "unborn"]
    /\ processCalls = [f \in FileNames |-> 0]
    /\ finalized = [o \in Ops |-> 0]
    /\ job = JobIdle
    /\ jobRuns = 0
    /\ jobFaults = 0
    /\ racer = [i \in Racers |-> RacerIdle]

\* main, lines 238-259: the checkpoint is read and the branch chosen.  The
\* branches of FAILED and of an unknown status only log.
RaceMain(i) ==
    LET parse_data == get_parse_manifest
        status == parse_data.status
    IN  /\ racer[i].pc = "idle"
        /\ racer' = [racer EXCEPT ![i] =
               [pc |-> CASE status = "NEW" -> "start_lro"
                         [] status = "IN_PROGRESS" -> "check_lro_status"
                         [] status = "SUCCESS" -> "combine_outputs"
                         [] OTHER -> "returned",
                data |-> parse_data]]
        /\ UNCHANGED parserVars
        /\ UNCHANGED <<starterVars, chunkVars, embedVars, detectVars,
                       uploaderVars, retryVars>>

\* start_lro, lines 145-153: the batch call, then the local record.
RaceBatch(i) ==
    /\ racer[i].pc = "start_lro"
    /\ Unborn # {}
    /\ operation' = [operation EXCEPT ![NextOp] = "running"]
    /\ racer' = [racer EXCEPT ![i] =
           [pc |-> "save_started",
            data |-> [@.data EXCEPT !.lro_id = NextOp,
                                    !.status = "IN_PROGRESS",
                                    !.start_time = "now",
                                    !.end_time = "None",
                                    !.error = "None"]]]
    /\ UNCHANGED <<parse_manifest, blobMetadata, processCalls, finalized,
                   job, jobRuns, jobFaults>>
    /\ UNCHANGED <<starterVars, chunkVars, embedVars, detectVars,
                   uploaderVars, retryVars>>

\* start_lro, line 155, and check_lro_status, line 188 or 196: the local
\* record is stored, and main returns.
RaceSave(i) ==
    /\ racer[i].pc \in {"save_started", "save_final"}
    /\ parse_manifest' = Blob(racer[i].data)
    /\ racer' = [racer EXCEPT ![i].pc = "returned"]
    /\ UNCHANGED <<blobMetadata, operation, processCalls, finalized, job,
                   jobRuns, jobFaults>>
    /\ UNCHANGED <<starterVars, chunkVars, embedVars, detectVars,
                   uploaderVars, retryVars>>

\* check_lro_status, lines 166-196, up to the save.
RaceCheck(i) ==
    LET lro_id == racer[i].data.lro_id
    IN  /\ racer[i].pc = "check_lro_status"
        /\ racer' = [racer EXCEPT ![i] =
               IF lro_id = 0 \/ operation[lro_id] = "running"
               THEN [@ EXCEPT !.pc = "returned"]
               ELSE [pc |-> "save_final",
                     data |-> IF operation[lro_id] = "error"
                              THEN [@.data EXCEPT !.status = "FAILED",
                                                  !.end_time = "now",
                                                  !.error = "message"]
                              ELSE [@.data EXCEPT !.status = "SUCCESS",
                                                  !.end_time = "now",
                                                  !.error = "None"]]]
        /\ UNCHANGED parserVars
        /\ UNCHANGED <<starterVars, chunkVars, embedVars, detectVars,
                       uploaderVars, retryVars>>

\* combine_outputs, lines 210-219, called at line 255.
RaceCombine(i) ==
    LET lro_id == racer[i].data.lro_id
    IN  /\ racer[i].pc = "combine_outputs"
        /\ finalized' = IF lro_id = 0 THEN finalized
                        ELSE [finalized EXCEPT ![lro_id] = @ + 1]
        /\ racer' = [racer EXCEPT ![i].pc = "returned"]
        /\ UNCHANGED <<parse_manifest, blobMetadata, operation,
                       processCalls, job, jobRuns, jobFaults>>
        /\ UNCHANGED <<starterVars, chunkVars, embedVars, detectVars,
                       uploaderVars, retryVars>>

RaceNext ==
    \/ \E o \in Ops, outcome \in {"done", "error"} : OperationEnds(o, outcome)
    \/ \E i \in Racers : RaceMain(i)
    \/ \E i \in Racers : RaceBatch(i)
    \/ \E i \in Racers : RaceSave(i)
    \/ \E i \in Racers : RaceCheck(i)
    \/ \E i \in Racers : RaceCombine(i)

InitRace ==
    StarterIdle /\ ChunkInit /\ EmbedIdle /\ DetectIdle /\ UploaderIdle
        /\ RetryIdle /\ RaceInit

SpecRace ==
    InitRace /\ [][RaceNext]_vars

(***************************************************************************)
(* process_chunking called again and again for one folder, one invocation  *)
(* after the other, while storage fails a bounded number of times.         *)
(***************************************************************************)

\* A storage operation outside the try block raises and the exception
\* leaves process_chunking: load_checkpoint (line 96), load_failed_chunks
\* (line 100), or the read or the write of save_failed_chunk (lines 62-68)
\* called from the handler of line 133.
ChunkStorageRaises(p) ==
    /\ chunker[p].pc \in {"load_failed", "log_read", "log_write"}
    /\ chunkFaults < MaxFaults
    /\ chunkFaults' = chunkFaults + 1
    /\ chunker' = [chunker EXCEPT ![p] = ChunkerIdle]
    /\ UNCHANGED <<chunkBlobs, chunks_metadata, chunks_errors, chunkRuns,
                   cFailRun, cRecovered, cEverSaved>>
    /\ UNCHANGED notChunk

ChunkRepeatNext ==
    \/ \E p \in {1} : ChunkStart(p)
    \/ \E p \in {1} : ChunkLoadFailed(p)
    \/ \E p \in {1} : ChunkLoop(p)
    \/ \E p \in {1} : ChunkUpload(p)
    \/ \E p \in {1} : ChunkSaveCheckpoint(p)
    \/ \E p \in {1} : ChunkRaise(p)
    \/ \E p \in {1} : ChunkLogRead(p)
    \/ \E p \in {1} : ChunkLogWrite(p)
    \/ \E p \in {1} : ChunkStorageRaises(p)

\* The trigger keeps calling process_chunking, and an invocation that is
\* running takes its next step; the steps that raise are not forced.
ChunkRepeatFairness ==
    /\ WF_vars(ChunkStart(1))
    /\ WF_vars(ChunkLoadFailed(1))
    /\ WF_vars(ChunkLoop(1))
    /\ WF_vars(ChunkUpload(1))
    /\ WF_vars(ChunkSaveCheckpoint(1))
    /\ WF_vars(ChunkLogRead(1))
    /\ WF_vars(ChunkLogWrite(1))

SpecChunkRepeat ==
    InitChunk /\ [][ChunkRepeatNext]_vars /\ ChunkRepeatFairness

(***************************************************************************)
(* Claims about the detector and the trigger handler (SpecStarter).        *)
(***************************************************************************)
Declared ==
    DictGet(manifestContent, "chunk_files", {})

NumChunks ==
    DictGet(manifestContent, "num_chunks", 0)

AfterRemoteCall ==
    {"lro_called", "lro_write", "single_called", "single_text",
     "single_entities", "single_meta"}

\* C1: once the folder's metadata record holds an lro_id with status
\* IN_PROGRESS, an invocation of lro_starter triggered afterwards does not
\* call batch_process_documents for that folder.
C1_NoSecondBatch ==
    \A h \in Handlers :
        pc[h] \in {"lro_called", "lro_write"} => hEntry[h] # "RESUME"

\* C2: an invocation of lro_starter triggered when the folder's metadata
\* record has status COMPLETED issues no process_document or
\* batch_process_documents call and writes neither record nor artifacts
\* (it never gets past its decision).
C2_CompletedIsNoOp ==
    \A h \in Handlers :
        hEntry[h] = "COMPLETE" => pc[h] \notin AfterRemoteCall

\* C3, as claimed: with the manifest present, WAIT when fewer chunks are
\* listed than num_chunks, WAIT when the listed names differ from
\* chunk_files, SINGLE when num_chunks = 1 and the sets are equal, LRO when
\* num_chunks > 1 and the sets are equal.
C3_Claim ==
    (Exists(lastEval) /\ Content(lastEval).manifest) =>
        LET r == Content(lastEval).result
            present == Content(lastEval).listed
        IN  /\ Cardinality(present) < NumChunks => r = "WAIT"
            /\ present # Declared => r = "WAIT"
            /\ (NumChunks = 1 /\ present = Declared) => r = "SINGLE"
            /\ (NumChunks > 1 /\ present = Declared) => r = "LRO"

\* C3, amended: SINGLE and LRO also need the number of listed chunks to be
\* num_chunks; equal sets of any other size give WAIT.
C3_Amended ==
    (Exists(lastEval) /\ Content(lastEval).manifest) =>
        LET r == Content(lastEval).result
            present == Content(lastEval).listed
        IN  /\ Cardinality(present) < NumChunks => r = "WAIT"
            /\ present # Declared => r = "WAIT"
            /\ Cardinality(present) # NumChunks => r = "WAIT"
            /\ (NumChunks = 1 /\ present = Declared
                   /\ Cardinality(present) = 1) => r = "SINGLE"
            /\ (NumChunks > 1 /\ present = Declared
                   /\ Cardinality(present) = NumChunks) => r = "LRO"

C3_Witness ==
    /\ Exists(lastEval)
    /\ Content(lastEval).manifest
    /\ Content(lastEval).result = "LRO"
    /\ Content(lastEval).listed = Declared
    /\ NumChunks > 1

\* The manifest of a unit as the data model has it: at least one declared
\* chunk, and num_chunks the number of declared names.
WellFormedUnit ==
    /\ Declared # {}
    /\ NumChunks = Cardinality(Declared)

\* C4, as claimed (for a well-formed unit): an evaluation of the unit's
\* folder made while a declared chunk is not yet visible returns WAIT, and
\* one made when all declared chunks are visible returns SINGLE or LRO.
C4_Claim ==
    (Exists(lastEval) /\ Content(lastEval).folder = UnitFolder
                      /\ WellFormedUnit) =>
        LET r == Content(lastEval).result
            visible == Content(lastEval).visible
        IN  /\ ~(Declared \subseteq visible) => r = "WAIT"
            /\ Declared \subseteq visible => r \in {"SINGLE", "LRO"}

\* C4, amended: while a declared name is missing from the folder's chunk_
\* listing every evaluation returns WAIT and the invocation ends without a
\* remote call; an evaluation made when the manifest is present and the
\* chunk_ listing is exactly the declared set, of size num_chunks, returns
\* SINGLE or LRO.
C4_Amended ==
    (Exists(lastEval) /\ Content(lastEval).folder = UnitFolder) =>
        LET r == Content(lastEval).result
            listed == Content(lastEval).listed
        IN  /\ ~(Declared \subseteq listed) => r = "WAIT"
            /\ r = "WAIT" => pc[Content(lastEval).handler] = "idle"
            /\ (Content(lastEval).manifest /\ listed = Declared
                   /\ NumChunks = Cardinality(Declared))
                  => r \in {"SINGLE", "LRO"}

C4_Witness ==
    /\ Exists(lastEval)
    /\ Content(lastEval).folder = UnitFolder
    /\ WellFormedUnit
    /\ sawWait
    /\ Content(lastEval).result \in {"SINGLE", "LRO"}

(***************************************************************************)
(* Claims about the chunking and the embedding stage.                      *)
(***************************************************************************)
ChunkLog ==
    StoredLog(chunks_errors)

EmbedLog ==
    StoredLog(embeddings_errors)

\* The number of entries of a failure log that name a sub-unit.
EntriesFor(log, name) ==
    Cardinality({i \in 1..Len(log) : log[i].chunk = name})

ChunkStageQuiet ==
    \A p \in ChunkProcs : chunker[p].pc = "idle"

EmbedStageQuiet ==
    \A q \in DOMAIN embedder : embedder[q].pc = "idle"

\* C5: a chunk whose write failed in one invocation of process_chunking and
\* that was written and checkpointed in a later one is, once the stage has
\* processed every chunk and no invocation is running, absent from
\* chunks_errors.json and present in processed_chunks.
C5_FailureLogConverges ==
    (ChunkStageQuiet /\ StoredSet(chunks_metadata) = DocChunkNames) =>
        \A n \in cRecovered :
            /\ n \notin LogNames(ChunkLog)
            /\ n \in StoredSet(chunks_metadata)

\* C6: a chunk whose embedding failed in one invocation of
\* process_embedding and succeeded in a later one is from then on absent
\* from embeddings_errors.json, and its embedding file name is in the
\* processed_chunks of embeddings_metadata.json.
C6_EmbeddingLogConverges ==
    \A n \in eRecovered :
        /\ n \notin LogNames(EmbedLog)
        /\ EmbeddingFileName(n) \in StoredSet(embeddings_metadata)

C6_Witness ==
    /\ eRecovered # {}
    /\ \E n \in eRecovered : EmbeddingFileName(n) \in embBlobs

\* C7: when no invocation is running, no sub-unit is both in a stage's
\* processed set and in that stage's failure log.
C7_ProcessedOrFailed ==
    (ChunkStageQuiet /\ EmbedStageQuiet) =>
        /\ StoredSet(chunks_metadata) \cap LogNames(ChunkLog) = {}
        /\ \A n \in LogNames(EmbedLog) :
               EmbeddingFileName(n) \notin StoredSet(embeddings_metadata)

\* C8: a failure log holds at most one entry per sub-unit.
C8_OneEntryPerSubUnit ==
    /\ \A n \in LogNames(ChunkLog) : EntriesFor(ChunkLog, n) <= 1
    /\ \A n \in LogNames(EmbedLog) : EntriesFor(EmbedLog, n) <= 1

\* C9: a name that a saved checkpoint has held is in every later saved
\* checkpoint.
C9_ProcessedOnlyGrows ==
    /\ cEverSaved \subseteq StoredSet(chunks_metadata)
    /\ eEverSaved \subseteq StoredSet(embeddings_metadata)

\* C10: every name in a persisted processed_chunks set has its artifact in
\* storage.
C10_ProcessedHasArtifact ==
    /\ StoredSet(chunks_metadata) \subseteq chunkBlobs
    /\ StoredSet(embeddings_metadata) \subseteq embBlobs

(***************************************************************************)
(* Claims about the state machine of a unit: the checkpoint, the remote    *)
(* operation and the finalization.                                         *)
(***************************************************************************)

\* C11: the checkpoint that records the in-progress status is stored
\* before the remote call is issued: whenever a batch call has been sent
\* for a folder, the folder has a metadata record.
C11_CheckpointBeforeCall ==
    \A f \in FolderKeys : batchCalls[f] > 0 => Exists(metadata[f])

\* What a stored checkpoint says: its status and its operation handle.
CheckpointStatus(cp) ==
    IF Exists(cp) THEN DictGet(Content(cp), "status", "None") ELSE "None"

CheckpointHandle(cp) ==
    IF Exists(cp) THEN DictGet(Content(cp), "lro_id", 0) ELSE 0

InProgressWithHandle(cp) ==
    CheckpointStatus(cp) = "IN_PROGRESS" /\ CheckpointHandle(cp) # 0

\* C12: an invocation that found the stored checkpoint in progress with an
\* operation handle issues no batch_process_documents call.
C12_ResumePolls ==
    (job.pc # "idle" /\ InProgressWithHandle(job.entry)) =>
        BatchCalls = job.calls

\* C13: an invocation that found the stored checkpoint at SUCCESS makes no
\* remote parser call and leaves the checkpoint as it was.
C13_SuccessIsNoOp ==
    (job.pc # "idle" /\ CheckpointStatus(job.entry) = "SUCCESS") =>
        /\ BatchCalls = job.calls
        /\ parse_manifest = job.entry

\* C14: the finalization of an operation runs once, never a second time,
\* however many polls and re-invocations follow its completion.
C14_FinalizedOnce ==
    \A o \in Ops : finalized[o] <= 1

\* C15: finalization runs only for an operation that ended without an
\* operation-level error.
C15_FinalizedOnlyWithoutError ==
    \A o \in Ops : finalized[o] > 0 => operation[o] = "done"

\* C16: a checkpoint written with status FAILED has an end time and the
\* error message, and still holds the operation handle.
C16_FailedRecord ==
    CheckpointStatus(parse_manifest) = "FAILED" =>
        /\ DictGet(Content(parse_manifest), "end_time", "None") # "None"
        /\ DictGet(Content(parse_manifest), "error", "None") # "None"
        /\ CheckpointHandle(parse_manifest) # 0

\* C17: a checkpoint with status SUCCESS has an end time and no operation
\* handle.
C17_SuccessRecord ==
    CheckpointStatus(parse_manifest) = "SUCCESS" =>
        /\ DictGet(Content(parse_manifest), "end_time", "None") # "None"
        /\ CheckpointHandle(parse_manifest) = 0

\* C18: an invocation that found a file at status FAILED issues no
\* process_document call for it and leaves its status FAILED.
C18_FailedIsTerminal ==
    \A f \in FileNames :
        (job.pc # "idle" /\ FileStatus(job.entry, f) = "FAILED") =>
            /\ processCalls[f] = job.calls[f]
            /\ FileStatus(parse_manifest, f) = "FAILED"

\* C19: after a poll that finds the operation not done, the checkpoint
\* holds the in-progress status and the operation handle it held before
\* the poll, and no finalization has run for the operation.
C19_PollNotDoneKeeps ==
    (job.pc = "monitor" /\ job.before # Absent
        /\ InProgressWithHandle(Content(job.before))) =>
            /\ CheckpointStatus(parse_manifest) = "IN_PROGRESS"
            /\ CheckpointHandle(parse_manifest)
                   = CheckpointHandle(Content(job.before))
            /\ finalized[job.op] = 0

\* Everything the functions keep in storage.
Stored ==
    <<bucket, manifestContent, metadata, outputs, chunkBucket,
      manifestsContent, chunkBlobs, chunks_metadata, chunks_errors,
      embBlobs, embeddings_metadata, embeddings_errors, parse_manifest,
      blobMetadata>>

\* C20: a step that evaluates a completeness check, whatever it returns,
\* leaves every stored object, metadata record and checkpoint unchanged.
C20_CheckReadsOnly ==
    [][evalTick' # evalTick => UNCHANGED Stored]_vars

\* A check has been evaluated on buckets that hold objects, and returned a
\* READY result.
C20_Witness ==
    /\ evalTick
    /\ bucket # {}
    /\ chunkBucket # {}
    /\ Exists(verdict)
    /\ Content(verdict).by = "check_manifest_and_decide"
    /\ Content(verdict).result \in {"SINGLE", "LRO"}

(***************************************************************************)
(* Claims about missing manifests, error isolation and the failure logs.   *)
(***************************************************************************)

\* The step is an evaluation by the trigger handler (lro_starter).
EvaluationStep ==
    triggers' # triggers

\* C21: when the trigger handler evaluates a folder whose manifest is not
\* in the bucket, the decision is WAIT, the invocation ends at once (so it
\* sends no batch or single request afterwards), and the step changes no
\* stored object, no metadata record and no call count; an evaluation that
\* comes after a WAIT and finds the manifest with exactly the declared
\* chunks is not WAIT.
C21_MissingManifestWaits ==
    [][EvaluationStep =>
          LET ev == Content(lastEval')
          IN  /\ ~ev.manifest =>
                    /\ ev.result = "WAIT"
                    /\ pc'[ev.handler] = "idle"
                    /\ UNCHANGED <<bucket, metadata, outputs, batchCalls,
                                   singleCalls>>
              /\ (sawWait /\ ev.folder = UnitFolder /\ ev.manifest
                     /\ ev.listed = Declared
                     /\ Cardinality(ev.listed) = NumChunks) =>
                    ev.result \in {"SINGLE", "LRO"}]_vars

\* A folder with a chunk and no manifest has been evaluated.
C21_Witness ==
    /\ Exists(lastEval)
    /\ ~Content(lastEval).manifest
    /\ Content(lastEval).listed # {}
    /\ Content(lastEval).result = "WAIT"
    /\ pc[Content(lastEval).handler] = "idle"
    /\ metadata[Content(lastEval).folder] = Absent

\* The step stores a failure log of the embedding (chunking) stage as
\* written by the handler of a raised error: log_failed_embedding
\* (save_failed_chunk) finishes.
EmbedErrorLogged(q) ==
    /\ embedder[q].pc = "log_write"
    /\ embeddings_errors' # embeddings_errors

ChunkErrorLogged(p) ==
    /\ chunker[p].pc = "log_write"
    /\ chunks_errors' # chunks_errors

\* The step is an except clause catching an error (lines 125-127 of the
\* embedder, 131-133 of the chunk processor).
EmbedErrorCaught(q) ==
    /\ embedder[q].error = ""
    /\ embedder'[q].error # ""

ChunkErrorCaught(p) ==
    /\ chunker[p].error = ""
    /\ chunker'[p].error # ""

EmbedReturns(q) ==
    /\ embedder[q].pc = "loop"
    /\ embedder[q].idx > Len(embedder[q].chunk_blobs)
    /\ embedder'[q].pc = "idle"

ChunkReturns(p) ==
    /\ chunker[p].pc = "loop"
    /\ chunker[p].idx = NumDocChunks
    /\ chunker'[p].pc = "idle"

\* C23: when an invocation of process_embedding or process_chunking
\* returns, every sub-unit whose handling first raised during that
\* invocation and that is not in the stored processed set has an entry in
\* the stored failure log.
C23_FailuresStayLogged ==
    [][/\ \A q \in {1} :
             EmbedReturns(q) =>
                 \A n \in ListedNames :
                     (eFailRun[n] = embedder[q].run
                         /\ EmbeddingFileName(n)
                                \notin StoredSet(embeddings_metadata)) =>
                         n \in LogNames(EmbedLog)
       /\ \A p \in {1} :
             ChunkReturns(p) =>
                 \A n \in DocChunkNames :
                     (cFailRun[n] = chunker[p].run
                         /\ n \notin StoredSet(chunks_metadata)) =>
                         n \in LogNames(ChunkLog)]_vars

(***************************************************************************)
(* Claims about the uploader: splitting and the manifest.                  *)
(***************************************************************************)

\* ceil(n / s) for n >= 0 and s >= 1.
CeilDiv(n, s) ==
    (n + s - 1) \div s

RECURSIVE Concat(_)
Concat(seqs) ==
    IF seqs = <<>> THEN <<>> ELSE Head(seqs) \o Concat(Tail(seqs))

\* The contents of the chunk files, in the order of the returned paths.
ChunkContents ==
    [i \in 1..Len(chunk_paths) |-> Content(tmp[chunk_paths[i]])]

\* C24: for a chunk size of s >= 1 bytes and a file of n >= 0 bytes,
\* split_file_into_chunks returns ceil(n / s) chunk files (none when
\* n = 0), every returned path names a written file, and the contents of
\* the files, concatenated in index order, are the bytes of the input.
C24_SplitIsExact ==
    upPc = "split" =>
        LET s == CHUNK_SIZE_MB * MB
            n == Len(upFile)
        IN  /\ Len(chunk_paths) = CeilDiv(n, s)
            /\ n = 0 => chunk_paths = <<>>
            /\ \A i \in 1..Len(chunk_paths) :
                   /\ Exists(tmp[chunk_paths[i]])
                   /\ chunk_paths[i] = ChunkPath(LocalPath, i - 1)
            /\ Concat(ChunkContents) = upFile

\* A file whose length is no multiple of the chunk size has been split
\* into more than one chunk.
C24_Witness ==
    /\ upPc = "split"
    /\ Len(chunk_paths) >= 2
    /\ Len(upFile) % (CHUNK_SIZE_MB * MB) # 0

\* The manifest upload_document stored, and the base names of the chunk
\* objects it uploaded.
StoredManifest ==
    Content(sourceObjects[<<FolderUuid, ManifestName>>])

UploadedChunkNames ==
    {b[2] : b \in {c \in BlobNames : /\ c # <<FolderUuid, ManifestName>>
                                     /\ Exists(sourceObjects[c])}}

\* The elements of a list.
Range(seq) ==
    {seq[i] : i \in 1..Len(seq)}

\* C27: with CHUNK_SIZE_MB >= 1, upload_document takes the file itself as
\* the only chunk when its size is at most CHUNK_SIZE_MB megabytes and
\* splits it into two chunks or more otherwise; the manifest it writes has
\* num_chunks >= 1, num_chunks is the length of chunk_files, chunk_files
\* has no name twice, and its names are the base names of the chunk
\* objects uploaded.
C27_ManifestMatchesUpload ==
    /\ upPc \in {"upload", "cleanup", "done"} =>
           IF Len(upFile) <= CHUNK_SIZE_MB * MB
           THEN chunk_paths = <<LocalPath>>
           ELSE Len(chunk_paths) >= 2
    /\ upPc \in {"cleanup", "done"} =>
           /\ StoredManifest.num_chunks >= 1
           /\ StoredManifest.num_chunks = Len(StoredManifest.chunk_files)
           /\ Cardinality(Range(StoredManifest.chunk_files))
                  = Len(StoredManifest.chunk_files)
           /\ Range(StoredManifest.chunk_files) = UploadedChunkNames

\* A file larger than the threshold has been split, uploaded and described
\* by a stored manifest, and the request has returned.
C27_Witness ==
    /\ upPc = "done"
    /\ Len(upFile) > CHUNK_SIZE_MB * MB
    /\ Exists(sourceObjects[<<FolderUuid, ManifestName>>])
    /\ StoredManifest.num_chunks >= 2

(***************************************************************************)
(* Claims about the single-document path and the completion of a batch.    *)
(***************************************************************************)

SingleOutputs ==
    {"report_text.txt", "report_entities.json"}

\* The metadata record of the folder says COMPLETED.
Completed(folder) ==
    /\ Exists(metadata[folder])
    /\ DictGet(Content(metadata[folder]), "status", "") = "COMPLETED"

\* C25: a folder whose metadata record says COMPLETED has report_text.txt
\* and report_entities.json in storage; the record becomes COMPLETED only
\* in a step that finds both outputs stored; process_document is called
\* only by an invocation that has just decided SINGLE, once for that
\* decision.
C25_CompletedHasOutputs ==
    /\ [](\A f \in FolderKeys :
              Completed(f) => SingleOutputs \subseteq outputs[f])
    /\ [][/\ \A f \in FolderKeys :
                (~Completed(f) /\ Completed(f)') =>
                    SingleOutputs \subseteq outputs[f]
          /\ \A f \in FolderKeys :
                singleCalls'[f] # singleCalls[f] =>
                    /\ singleCalls'[f] = singleCalls[f] + 1
                    /\ \E h \in Handlers :
                           /\ hFolder[h] = f
                           /\ pc[h] = "single_call"
                           /\ pc'[h] = "single_called"
          /\ \A h \in Handlers :
                (pc[h] # "single_call" /\ pc'[h] = "single_call") =>
                    /\ EvaluationStep
                    /\ Content(lastEval').result = "SINGLE"
                    /\ Content(lastEval').handler = h]_vars

\* The single-document path has run to its end for the folder after one
\* call of process_document.
C25_Witness ==
    /\ Completed(UnitFolder)
    /\ SingleOutputs \subseteq outputs[UnitFolder]
    /\ singleCalls[UnitFolder] = 1

\* The checkpoint record start_lro wrote for the unit names operation o.
LroRecorded(o) ==
    /\ Exists(metadata[UnitFolder])
    /\ DictGet(Content(metadata[UnitFolder]), "lro_id", 0) = o

\* C26: when the operation that start_lro recorded for the unit has ended
\* without error, the scheduled sweeps of poll_chunks lead to a state
\* where get_lro_status of the unit is COMPLETE.
C26_SweepsComplete ==
    \A o \in Ops :
        (LroRecorded(o) /\ operation[o] = "done")
            ~> (get_lro_status(UnitFolder) = "COMPLETE")

(***************************************************************************)
(* Claims about the retry policy and about concurrent invocations.         *)
(***************************************************************************)

RECURSIVE Pow2(_)
Pow2(k) ==
    IF k = 0 THEN 1 ELSE 2 * Pow2(k - 1)

RECURSIVE Sum(_)
Sum(seq) ==
    IF seq = <<>> THEN 0 ELSE Head(seq) + Sum(Tail(seq))

\* C28: the waits between the failed attempts of a retried operation are
\* 1, 2, 4, ... seconds, doubling up to 60 and never more; a wait begins
\* only before the deadline of 600 seconds, and the call ends with the
\* retry failure only once the deadline has passed.
C28_BackoffSchedule ==
    /\ \A i \in 1..Len(retry.waits) :
           /\ retry.waits[i] <= 60
           /\ retry.waits[i] = Min(Pow2(i - 1), 60)
    /\ retry.waits # <<>> =>
           retry.elapsed - retry.waits[Len(retry.waits)] < 600
    /\ retry.pc = "retry_error" => retry.elapsed >= 600

\* C29: with invocations of process_chunking running at the same time,
\* a write of the failure log by one of them (save_failed_chunk) keeps
\* the entries the stored log holds for the other sub-units, so the log
\* ends with the entries of both updaters.
C29_LogWritesKeepEntries ==
    [][\A p \in ChunkProcs :
          (chunker[p].pc = "log_write" /\ chunker'[p].pc # "log_write"
              /\ chunks_errors' # chunks_errors) =>
              \A n \in LogNames(ChunkLog) \ {ChunkFileName(chunker[p].idx)} :
                  n \in LogNames(StoredLog(chunks_errors'))]_vars

\* C30: of the invocations of main() that run for a unit with no
\* checkpoint, at the same time or one after another, at most one starts
\* a batch operation: batch_process_documents is called once at most.
C30_OneStarter ==
    BatchCalls <= 1

(***************************************************************************)
(* Claims about the units end to end: the retry inside start_lro, the      *)
(* uploader's unit under the detector, the splitter, the sweep of the      *)
(* status checker and the repeated runs of the chunk processor.            *)
(***************************************************************************)

\* C31: one invocation starts at most one batch operation for its unit:
\* when the checkpoint write that follows a successful
\* batch_process_documents call fails inside start_lro and @Retry runs
\* start_lro again, no second batch_process_documents call is issued.
C31_RetryStartsNoSecondBatch ==
    job.pc \in {"start_lro", "save_started"} =>
        BatchCalls <= job.calls + 1

\* The unit as upload_document leaves it in SOURCE_BUCKET: the chunk
\* objects and manifest.json directly under <folder_uuid>/ and no other
\* object, the manifest declaring the uploaded names and their number.
UploaderUnitVisible ==
    /\ Declared # {}
    /\ NumChunks = Cardinality(Declared)
    /\ bucket = {Flat(UnitFolder, ManifestName)}
                    \cup {Flat(UnitFolder, c) : c \in Declared}

\* C32: once all the objects of a unit written by upload_document are
\* visible, a trigger of lro_starter carrying the name of any of them
\* evaluates the unit's folder and the decision is SINGLE or LRO, not
\* WAIT.
C32_UploadedUnitIsReady ==
    [][(UploaderUnitVisible /\ EvaluationStep) =>
          /\ Content(lastEval').folder = UnitFolder
          /\ Content(lastEval').result \in {"SINGLE", "LRO"}]_vars

\* C33: for a chunk size of s >= 1 bytes, split_file_into_chunks writes no
\* empty chunk: every chunk but the last has exactly s bytes, the last
\* has between 1 and s bytes, and the chunk with index i (named
\* <file>.chunk_<i>, i = 0..k-1 with no gap) holds the bytes of the input
\* from offset i * s on.
C33_NoEmptyChunk ==
    upPc = "split" =>
        LET s == CHUNK_SIZE_MB * MB
            k == Len(chunk_paths)
        IN  \A i \in 1..k :
                LET data == ChunkContents[i]
                IN  /\ chunk_paths[i] = ChunkPath(LocalPath, i - 1)
                    /\ Len(data) >= 1
                    /\ Len(data) <= s
                    /\ i < k => Len(data) = s
                    /\ data = SubSeq(upFile, (i - 1) * s + 1,
                                     (i - 1) * s + Len(data))

\* A file whose length is a multiple of the chunk size has been split
\* into several chunks, the last one full.
C33_Witness ==
    /\ upPc = "split"
    /\ Len(chunk_paths) >= 2
    /\ Len(upFile) = Len(chunk_paths) * CHUNK_SIZE_MB * MB

\* SOURCE_BUCKET holds no chunk object, in any folder: every visible
\* object is a manifest.json.
NoChunkObject ==
    \A p \in bucket : p[Len(p)] = ManifestName

\* C34: an evaluation of check_manifest_and_decide made while no chunk
\* object is present returns WAIT, never SINGLE or LRO, whatever the
\* manifest holds (num_chunks 0, or num_chunks / chunk_files missing).
C34_NoChunksNeverReady ==
    [][(evalTick' # evalTick
           /\ Content(verdict').by = "check_manifest_and_decide"
           /\ NoChunkObject) =>
          Content(verdict').result = "WAIT"]_vars

\* C35: a sweep of poll_chunks handles every listed blob: it ends only
\* when no listed blob is left, so an error raised while one blob's
\* operation is polled does not keep the remaining blobs from being
\* polled, and a blob already marked DONE, which is not polled against
\* the service again, does not end the sweep.
C35_SweepHandlesEveryBlob ==
    [][(job.pc = "poll" /\ job'.pc = "idle") => job.todo = {}]_vars

\* The step is one of invocation p, which has every chunk of the document
\* in processed_chunks and stands at the head of its loop or before it:
\* where an invocation that loaded a complete checkpoint always is.
StepOfCompleteInvocation(p) ==
    /\ chunker[p].processed_chunks = DocChunkNames
    /\ chunker[p].pc \in {"load_failed", "loop"}
    /\ chunker'[p] # chunker[p]

\* C36: with storage failing only a bounded number of times, repeated
\* invocations of process_chunking reach a stored checkpoint that holds
\* every chunk of the document; an invocation that starts on such a
\* checkpoint loads all of it, and from there on each of its steps writes
\* no chunk artifact, leaves the checkpoint and the failure log as they
\* are, and takes it to the next skip or to its return.
C36_RepeatedRunsConverge ==
    /\ <>(StoredSet(chunks_metadata) = DocChunkNames)
    /\ [][\A p \in ChunkProcs :
             /\ (chunker[p].pc = "idle" /\ chunker'[p].pc # "idle"
                    /\ StoredSet(chunks_metadata) = DocChunkNames) =>
                   /\ chunker'[p].processed_chunks = DocChunkNames
                   /\ chunker'[p].pc = "load_failed"
             /\ StepOfCompleteInvocation(p) =>
                   /\ chunker'[p].pc \in {"loop", "idle"}
                   /\ chunker'[p].pc = "loop" =>
                          chunker'[p].processed_chunks = DocChunkNames
                   /\ UNCHANGED <<chunkBlobs, chunks_metadata,
                                  chunks_errors>>]_vars

\* After a failure on the way, a further invocation has begun on a
\* checkpoint that holds every chunk.
C36_Witness ==
    /\ chunker[1].pc = "load_failed"
    /\ chunker[1].processed_chunks = DocChunkNames
    /\ StoredSet(chunks_metadata) = DocChunkNames
    /\ Exists(chunks_errors)

====
